---- MODULE Spec2Model ----
(***************************************************************************)
(* Provider protocol layer of openchat: the three vendor adapters          *)
(* (OpenAI, Anthropic, Gemini), their Send and Stream calls, the SSE line  *)
(* parsers and the error values they return.                               *)
(*                                                                         *)
(* One behaviour is one call on one adapter.  The environment (the vendor  *)
(* server, the network and the caller's context) chooses the HTTP outcome, *)
(* the lines that arrive on the wire and the moment of cancellation.       *)
(* Spec follows a call to its return; SpecReq takes every request up to    *)
(* the bounds through the translation into the vendor's request struct;    *)
(* SpecPair runs two calls side by side on one adapter value.              *)
(* SpecRegistry is the provider registry and SpecConfig the configuration  *)
(* with its file and the environment's API keys.                           *)
(***************************************************************************)
EXTENDS Integers, Sequences, FiniteSets, TLC

VARIABLES
    adapter,          \* which adapter the call is made on
    op,               \* "send" or "stream"
    apiKey,           \* the adapter's apiKey field
    enableSearch,     \* Gemini: the enableSearch field
    enableThought,    \* Gemini: the enableThought field
    req,              \* the ChatRequest passed to the call
    wireReq,          \* the request struct that was marshalled for client.Do
    respBody,         \* Send, Stream: the response body the call decoded
    response,         \* Send: the ChatResponse returned
    canceled,         \* ctx.Done() is closed
    pc,               \* "idle", "receiving" (inside the scanner loop), "done"
    result,           \* the error returned: [kind, msg]; kind "none" while running
    httpCalls,        \* number of client.Do calls issued
    fragments,        \* the calls of onDelta, in order
    inThinking,       \* Gemini.Stream: var inThinking bool
    groundingChunks,  \* Gemini.Stream: var groundingChunks []struct{Title, URI}
    wire,             \* the lines scanner.Scan() has returned so far
    processed,        \* how many of them passed the ctx.Done() check
    terminal,         \* the terminal marker was honoured (break)
    status,           \* resp.StatusCode, 0 when no response was received
    bodyRead,         \* Send: outcome of io.ReadAll(resp.Body): "none", "ok", "fail"
    cancelPhase,      \* value of pc when cancellation was signalled; "never" if not
    calls,            \* Stream calls running side by side on one adapter value
    providers,        \* Registry.providers: map[string]Provider
    registered,       \* the arguments of the Register calls made, in order
    answer,           \* what the last Get or List call returned
    env,              \* the process environment: os.Getenv of the four key names
    file,             \* the config file on disk
    cfg,              \* the *Config the application holds
    configErr,        \* the error the last config operation returned, "" for nil
    input,            \* the string handed to Sanitize
    output,           \* what Sanitize returned for it
    streaming,        \* ui.Model: m.streaming
    streamCancel,     \* ui.Model: m.streamCancel, the command whose cancel it is, 0 for nil
    commands,         \* the tea.Cmd functions the UI has returned, in order
    currentView,      \* ui.Model: m.currentView
    geminiThinking,   \* ui.Model: m.geminiThinking
    appended,         \* assistant messages appended to m.messages
    quit,             \* Update has returned tea.Quit
    currentProvider   \* Model.currentProvider: the name of the selected adapter

callVars == <<adapter, op, apiKey, enableSearch, enableThought, req, wireReq,
              respBody, response, canceled, pc, result, httpCalls, fragments,
              inThinking, groundingChunks, wire, processed, terminal, status,
              bodyRead, cancelPhase>>
registryVars == <<providers, registered, answer>>
configVars == <<env, file, cfg, configErr>>
\* everything that is not a local or a field of the call that is followed
sanitizeVars == <<input, output>>
uiVars == <<streaming, streamCancel, commands, currentView, geminiThinking,
            appended, quit, currentProvider>>
elsewhere == <<calls, registryVars, configVars, sanitizeVars, uiVars>>

vars == <<callVars, elsewhere>>

----------------------------------------------------------------------------
(* Bounds *)

\* longest line sequence the server sends in one stream
MaxLines == 3
\* longest message list of a request
MaxMessages == 3
\* most parts in the candidate of a non-streaming Gemini response
MaxParts == 3

----------------------------------------------------------------------------
(* Common model: provider.go *)

Adapters == {"openai", "anthropic", "gemini"}
Ops == {"send", "stream"}

ErrNoAPIKey == [kind |-> "ErrNoAPIKey", msg |-> "no API key configured for provider"]
ErrInvalidResponse == [kind |-> "ErrInvalidResponse", msg |-> "invalid response from provider"]
ErrStreamClosed == [kind |-> "ErrStreamClosed", msg |-> "stream closed unexpectedly"]
ErrRateLimited == [kind |-> "ErrRateLimited", msg |-> "rate limited by provider"]
ErrContextCanceled == [kind |-> "ErrContextCanceled", msg |-> "context canceled"]

\* fmt.Errorf results, by their format string
Errorf(format, arg) == [kind |-> format, msg |-> format \o arg]
Nil == [kind |-> "nil", msg |-> ""]
Running == [kind |-> "none", msg |-> ""]

----------------------------------------------------------------------------
(* Inputs of one call *)

Roles == {"system", "user", "assistant", "tool"}
Message(role, content) == [role |-> role, content |-> content]

\* the messages requests are made of
MessageSet ==
    { Message("system", "A"), Message("system", "B"), Message("user", "A"),
      Message("assistant", "B"), Message("tool", "A") }

SeqsUpTo(S, n) == UNION { [1..k -> S] : k \in 0..n }

\* model names, and what strings.Contains(model, sub) says about them
Models == {"gemini-3-pro-preview", "gemini-2.5-flash", "gemini-2.0-flash", "gemini-%zz"}
Contains(model, sub) ==
    sub \in (CASE model = "gemini-3-pro-preview" -> {"gemini-3-pro", "gemini-3"}
               [] model = "gemini-2.5-flash" -> {"gemini-2.5-flash"}
               [] OTHER -> {})
\* url.Parse accepts the endpoint the model name is formatted into
URLParses(model) == model # "gemini-%zz"

\* float64 values of Temperature, by what json.Marshal and > 0 do with them
Temperatures == {"zero", "finite", "NaN", "+Inf"}
Positive(t) == t \in {"finite", "+Inf"}

\* ChatRequest: every request up to the bounds
AllRequests ==
    [model : Models, messages : SeqsUpTo(MessageSet, MaxMessages),
     maxTokens : {0, 100}, temp : Temperatures]

\* ChatRequest: the requests one full call is followed with; they differ in
\* whether the request can be built (json.Marshal rejects a NaN or infinite
\* Temperature, and Gemini puts req.Model into the URL, which
\* http.NewRequestWithContext parses)
Requests ==
    { [model |-> m, messages |-> << Message("system", "A"), Message("user", "A") >>,
       maxTokens |-> 0, temp |-> t] :
        <<m, t>> \in { <<"gemini-2.5-flash", "finite">>, <<"gemini-2.5-flash", "NaN">>,
                       <<"gemini-2.5-flash", "+Inf">>, <<"gemini-%zz", "finite">> } }

\* json.Marshal of the wire request
MarshalFails(a, r) ==
    IF a = "gemini"
    THEN r.temp = "+Inf"                 \* buildRequest copies Temperature only if > 0
    ELSE r.temp \in {"NaN", "+Inf"}      \* Temperature is copied as is

\* http.NewRequestWithContext: only Gemini's endpoint contains caller text
CreateFails(a, r) == a = "gemini" /\ ~URLParses(r.model)

----------------------------------------------------------------------------
(* Request translation: the struct each adapter marshals *)

\* mutant: the messages are sent newest first
OpenAIRequestNewestFirst(r, stream) ==
    [model |-> r.model,
     messages |-> [i \in 1..Len(r.messages) |->
                     [role |-> r.messages[Len(r.messages) + 1 - i].role,
                      content |-> r.messages[Len(r.messages) + 1 - i].content]],
     max_tokens |-> r.maxTokens,
     temperature |-> r.temp,
     stream |-> stream]

\* mutant: system messages are taken out of the list
OpenAIRequestNoSystem(r, stream) ==
    [model |-> r.model,
     messages |-> SelectSeq(r.messages, LAMBDA m : m.role # "system"),
     max_tokens |-> r.maxTokens,
     temperature |-> r.temp,
     stream |-> stream]

\* OpenAI.Send, OpenAI.Stream: messages[i] = openAIMessage{Role, Content}
OpenAIRequest(r, stream) ==
    [model |-> r.model,
     messages |-> [i \in 1..Len(r.messages) |->
                     [role |-> r.messages[i].role, content |-> r.messages[i].content]],
     max_tokens |-> r.maxTokens,
     temperature |-> r.temp,
     stream |-> stream]

\* mutant: a tool-role message keeps its role
RECURSIVE AnthropicMessagesKeepTool(_, _)
AnthropicMessagesKeepTool(msgs, acc) ==
    IF msgs = <<>> THEN acc
    ELSE LET m == Head(msgs)
         IN  IF m.role = "system"
             THEN AnthropicMessagesKeepTool(Tail(msgs), [acc EXCEPT !.system = m.content])
             ELSE AnthropicMessagesKeepTool(Tail(msgs),
                      [acc EXCEPT !.messages =
                          Append(@, [role |-> m.role, content |-> m.content])])

\* Anthropic.Send, Anthropic.Stream: for _, m := range req.Messages
RECURSIVE AnthropicMessages(_, _)
AnthropicMessages(msgs, acc) ==
    IF msgs = <<>> THEN acc
    ELSE LET m == Head(msgs)
         IN  IF m.role = "system"
             THEN AnthropicMessages(Tail(msgs), [acc EXCEPT !.system = m.content])
             ELSE AnthropicMessages(Tail(msgs),
                      [acc EXCEPT !.messages =
                          Append(@, [role |-> IF m.role = "tool" THEN "user" ELSE m.role,
                                     content |-> m.content])])

AnthropicDefaultMaxTokens == 4096

\* mutant: MaxTokens is copied as it is
AnthropicRequestNoDefault(r, stream) ==
    LET t == AnthropicMessages(r.messages, [system |-> "", messages |-> <<>>])
    IN  [model |-> r.model,
         messages |-> t.messages,
         system |-> t.system,
         max_tokens |-> r.maxTokens,
         temperature |-> r.temp,
         stream |-> stream]

AnthropicRequest(r, stream) ==
    LET t == AnthropicMessages(r.messages, [system |-> "", messages |-> <<>>])
    IN  [model |-> r.model,
         messages |-> t.messages,
         system |-> t.system,
         max_tokens |-> IF r.maxTokens = 0 THEN AnthropicDefaultMaxTokens
                                           ELSE r.maxTokens,
         temperature |-> r.temp,
         stream |-> stream]

\* the keys of the JSON object json.Marshal writes for an anthropicRequest:
\* system, temperature and stream are omitempty, max_tokens is not
AnthropicFields(w) ==
    {"model", "messages", "max_tokens"}
    \cup (IF w.system # "" THEN {"system"} ELSE {})
    \cup (IF w.temperature # "zero" THEN {"temperature"} ELSE {})
    \cup (IF w.stream THEN {"stream"} ELSE {})

\* a *geminiContent that is nil
NoContent == [present |-> FALSE, role |-> "", text |-> ""]
GeminiContent(role, text) == [present |-> TRUE, role |-> role, text |-> text]

\* mutant: the first system message wins
RECURSIVE GeminiContentsFirstSystem(_, _)
GeminiContentsFirstSystem(msgs, acc) ==
    IF msgs = <<>> THEN acc
    ELSE LET m == Head(msgs)
         IN  IF m.role = "system"
             THEN GeminiContentsFirstSystem(Tail(msgs),
                      IF acc.systemInstruction.present THEN acc
                      ELSE [acc EXCEPT !.systemInstruction = GeminiContent("", m.content)])
             ELSE GeminiContentsFirstSystem(Tail(msgs),
                      [acc EXCEPT !.contents =
                          Append(@, GeminiContent(IF m.role = "assistant" THEN "model"
                                                                           ELSE "user",
                                                  m.content))])

\* Gemini.buildRequest: for _, msg := range req.Messages
RECURSIVE GeminiContents(_, _)
GeminiContents(msgs, acc) ==
    IF msgs = <<>> THEN acc
    ELSE LET m == Head(msgs)
         IN  IF m.role = "system"
             THEN GeminiContents(Tail(msgs),
                      [acc EXCEPT !.systemInstruction = GeminiContent("", m.content)])
             ELSE GeminiContents(Tail(msgs),
                      [acc EXCEPT !.contents =
                          Append(@, GeminiContent(IF m.role = "assistant" THEN "model"
                                                                           ELSE "user",
                                                  m.content))])

isThinkingModel(model) ==
    \E tm \in {"gemini-3-pro", "gemini-3-flash", "gemini-2.5-pro",
               "gemini-2.5-flash", "gemini-2.0-flash-thinking"} : Contains(model, tm)
\* mutant: no model is taken for a Gemini 3 model
isGemini3ModelNever(model) == FALSE
isGemini3Model(model) == Contains(model, "gemini-3")

DefaultThinkingBudget == 8192

\* a *geminiThinkingConfig that is nil
NoThinkingConfig == [present |-> FALSE, thinkingBudget |-> 0, thinkingLevel |-> ""]

buildRequest(r, search, thought) ==
    LET t == GeminiContents(r.messages,
                            [systemInstruction |-> NoContent, contents |-> <<>>])
        temperature == IF Positive(r.temp) THEN r.temp ELSE "zero"
        maxOutputTokens == IF r.maxTokens > 0 THEN r.maxTokens ELSE 0
        thinkingConfig ==
            IF thought /\ isThinkingModel(r.model)
            THEN IF isGemini3Model(r.model)
                 THEN [present |-> TRUE, thinkingBudget |-> 0, thinkingLevel |-> "medium"]
                 ELSE [present |-> TRUE, thinkingBudget |-> DefaultThinkingBudget,
                       thinkingLevel |-> ""]
            ELSE NoThinkingConfig
        config == [present |-> TRUE, temperature |-> temperature,
                   maxOutputTokens |-> maxOutputTokens,
                   thinkingConfig |-> thinkingConfig]
    IN  [contents |-> t.contents,
         systemInstruction |-> t.systemInstruction,
         generationConfig |->
             IF Positive(temperature) \/ maxOutputTokens > 0 \/ thinkingConfig.present
             THEN config
             ELSE [present |-> FALSE, temperature |-> "zero", maxOutputTokens |-> 0,
                   thinkingConfig |-> NoThinkingConfig],
         tools |-> IF search THEN << "googleSearch" >> ELSE <<>>]

\* the struct handed to json.Marshal
WireRequest(a, o, r, search, thought) ==
    CASE a = "openai" -> OpenAIRequest(r, o = "stream")
      [] a = "anthropic" -> AnthropicRequest(r, o = "stream")
      [] a = "gemini" -> buildRequest(r, search, thought)

\* no request was marshalled
NoWire == [model |-> "", messages |-> <<>>]

----------------------------------------------------------------------------
(* Responses of a non-streaming exchange *)

\* a decoded body: whether it is JSON, its error object, and its choices
\* (OpenAI), content blocks (Anthropic) or candidates (Gemini)
Body(raw, hasError, message, items) ==
    [raw |-> raw, hasError |-> hasError, message |-> message, items |-> items]
NoBody == Body("none", FALSE, "", <<>>)

Block(type, text) == [type |-> type, text |-> text]

\* geminiPart, the chunks of geminiGroundingMetadata, geminiCandidate
Thought(x) == [thought |-> TRUE, text |-> x]     \* part.Thought != nil, Thought.Text = x
Answer(x) == [thought |-> FALSE, text |-> x]     \* part.Thought == nil, part.Text = x
Web(t, u) == [web |-> TRUE, title |-> t, uri |-> u]
NoWeb == [web |-> FALSE, title |-> "", uri |-> ""]
Candidate(ps, m) == [parts |-> ps, meta |-> m]   \* meta <<>>: no chunks (or nil)

Bodies(a) ==
    { Body("bad", FALSE, "", <<>>), Body("json", TRUE, "boom", <<>>),
      Body("json", FALSE, "", <<>>) }
    \cup
    (CASE a = "openai" ->
           { Body("json", FALSE, "", c) : c \in { <<"a">>, <<"a", "b">> } }
      [] a = "anthropic" ->
           { Body("json", FALSE, "", c) :
               c \in { << Block("text", "a") >>,
                       << Block("tool_use", "x"), Block("text", "b") >>,
                       << Block("text", "a"), Block("text", "b") >> } }
      [] a = "gemini" ->
           ({ Body("json", FALSE, "", << Candidate(ps, m) >>) :
               ps \in SeqsUpTo({Thought("t"), Thought(""), Answer("a"), Answer("")},
                               MaxParts),
               m \in { <<>>, << Web("T1", "u1") >>, << NoWeb >>,
                       << Web("T1", "u1"), NoWeb, Web("T2", "u2") >> } }
           \cup { Body("json", FALSE, "",
                       << Candidate(<< Answer("a") >>, <<>>),
                          Candidate(<< Answer("b") >>, << Web("T2", "u2") >>) >>) }))

Statuses == {200, 201, 400, 429}

\* json.Unmarshal(respBody, &v) returns nil
Unmarshals(body) == body.raw = "json"

\* the error built from a response whose status is neither 429 nor 200
APIError(a, code, body) ==
    IF a = "anthropic"
    THEN \* errResp.Error is a struct, not a pointer: any decodable body is used
         IF Unmarshals(body)
         THEN Errorf("API error: ", body.message)
         ELSE Errorf("API error: status ", ToString(code))
    ELSE IF Unmarshals(body) /\ body.hasError
         THEN Errorf("API error: ", body.message)
         ELSE Errorf("API error: status ", ToString(code))

----------------------------------------------------------------------------
(* Fragments *)

\* one call of onDelta; kind and line record which wire line produced it
Fragment(txt, kind, line) == [txt |-> txt, kind |-> kind, line |-> line]

\* mutant: the new fragment is put in front of the earlier ones
onDeltaPrepend(out, txt, kind, line) == << Fragment(txt, kind, line) >> \o out

onDelta(out, txt, kind, line) == Append(out, Fragment(txt, kind, line))

----------------------------------------------------------------------------
(* Lines of an SSE body.  A line is its prefix, the rest of its text and,  *)
(* when the rest is a JSON document, the value it decodes to.              *)

HasPrefix(line, p) == line.prefix = p
IsEmpty(line) == line.prefix = "" /\ line.rest = ""
\* json.Unmarshal([]byte(data), &v) returns nil
Decodes(line) == line.rest = "{json}"

(* OpenAI: openAIStreamResponse, reduced to choices[i].delta.content *)
OpenAILine(p, r, c) == [prefix |-> p, rest |-> r, choices |-> c]

OpenAILines ==
    { OpenAILine("", "", <<>>),                 \* blank line
      OpenAILine(":", " keep-alive", <<>>),     \* comment
      OpenAILine("event: ", "ping", <<>>),      \* not a data line
      OpenAILine("data: ", "[DONE]", <<>>),
      OpenAILine("data: ", "{bad", <<>>) }
    \cup { OpenAILine("data: ", "{json}", c) :
             c \in { <<>>, <<"">>, <<"a">>, <<"b">>, <<"", "b">> } }

(* Anthropic: anthropicStreamEvent, reduced to type and delta *)
NoDelta == [present |-> FALSE, type |-> "", text |-> ""]
Delta(t, x) == [present |-> TRUE, type |-> t, text |-> x]
AnthropicLine(p, r, t, d) == [prefix |-> p, rest |-> r, type |-> t, delta |-> d]

AnthropicLines ==
    { AnthropicLine("", "", "", NoDelta),
      AnthropicLine(":", " ping", "", NoDelta),
      AnthropicLine("event: ", "content_block_delta", "", NoDelta),
      AnthropicLine("event: ", "message_stop", "", NoDelta),
      AnthropicLine("data: ", "{bad", "", NoDelta),
      AnthropicLine("data: ", "{json}", "message_start", NoDelta),
      AnthropicLine("data: ", "{json}", "message_stop", NoDelta),
      AnthropicLine("data: ", "{json}", "content_block_delta", NoDelta),
      AnthropicLine("data: ", "{json}", "content_block_delta", Delta("text_delta", "a")),
      AnthropicLine("data: ", "{json}", "content_block_delta", Delta("text_delta", "b")),
      AnthropicLine("data: ", "{json}", "content_block_delta", Delta("text_delta", "")),
      AnthropicLine("data: ", "{json}", "content_block_delta", Delta("input_json_delta", "j")),
      AnthropicLine("data: ", "{json}", "message_delta", Delta("text_delta", "m")) }

(* Gemini: geminiResponse, reduced to candidates[i].content.parts and      *)
(* candidates[i].groundingMetadata.groundingChunks                         *)
GeminiLine(p, r, c) == [prefix |-> p, rest |-> r, candidates |-> c]

GeminiLines ==
    { GeminiLine("", "", <<>>),
      GeminiLine("event: ", "x", <<>>),
      GeminiLine("data: ", "{bad", <<>>),
      GeminiLine("data: ", "{json}", <<>>) }
    \cup { GeminiLine("data: ", "{json}", << Candidate(ps, <<>>) >>) :
             ps \in { << Thought("t") >>, << Thought("") >>, << Answer("a") >>,
                      << Answer("") >>, << Thought("t"), Answer("a") >>,
                      << Answer("a"), Thought("t") >> } }
    \cup { GeminiLine("data: ", "{json}", << Candidate(<<>>, << Web("T1", "u1") >>) >>),
           GeminiLine("data: ", "{json}", << Candidate(<< Answer("a") >>, << Web("T2", "u2") >>) >>),
           GeminiLine("data: ", "{json}", << Candidate(<<>>, << NoWeb >>) >>) }

Lines(a) ==
    CASE a = "openai" -> OpenAILines
      [] a = "anthropic" -> AnthropicLines
      [] a = "gemini" -> GeminiLines

----------------------------------------------------------------------------
(* The body of the scanner loop, one line at a time.  The parser state is  *)
(* [out, inThinking, chunks, brk]: the fragments forwarded so far, the two *)
(* local variables of Gemini.Stream, and whether the loop was left.        *)

Continue(st) == st
Break(st) == [st EXCEPT !.brk = TRUE]

\* mutant: a line that fails to decode ends the loop
OpenAIStepBadLineFatal(line, st, n) ==
    IF IsEmpty(line) \/ HasPrefix(line, ":") THEN Continue(st)
    ELSE IF ~HasPrefix(line, "data: ") THEN Continue(st)
    ELSE IF line.rest = "[DONE]" THEN Break(st)
    ELSE IF ~Decodes(line) THEN Break(st)
    ELSE IF Len(line.choices) > 0 /\ line.choices[1] # ""
         THEN [st EXCEPT !.out = onDelta(st.out, line.choices[1], "text", n)]
         ELSE st

\* mutant: the delta of the last choice is forwarded instead of the first
OpenAIStepLastChoice(line, st, n) ==
    IF IsEmpty(line) \/ HasPrefix(line, ":") THEN Continue(st)
    ELSE IF ~HasPrefix(line, "data: ") THEN Continue(st)
    ELSE IF line.rest = "[DONE]" THEN Break(st)
    ELSE IF ~Decodes(line) THEN Continue(st)
    ELSE IF Len(line.choices) > 0 /\ line.choices[Len(line.choices)] # ""
         THEN [st EXCEPT !.out = onDelta(st.out, line.choices[Len(line.choices)], "text", n)]
         ELSE st

\* OpenAI.Stream, the loop body after the ctx.Done() check
OpenAIStep(line, st, n) ==
    IF IsEmpty(line) \/ HasPrefix(line, ":") THEN Continue(st)
    ELSE IF ~HasPrefix(line, "data: ") THEN Continue(st)
    ELSE IF line.rest = "[DONE]" THEN Break(st)
    ELSE IF ~Decodes(line) THEN Continue(st)
    ELSE IF Len(line.choices) > 0 /\ line.choices[1] # ""
         THEN [st EXCEPT !.out = onDelta(st.out, line.choices[1], "text", n)]
         ELSE st

\* mutant: the delta's type is not looked at
AnthropicStepAnyDelta(line, st, n) ==
    IF IsEmpty(line) THEN Continue(st)
    ELSE IF HasPrefix(line, "event: ")
         THEN IF line.rest = "message_stop" THEN Break(st) ELSE Continue(st)
    ELSE IF ~HasPrefix(line, "data: ") THEN Continue(st)
    ELSE IF ~Decodes(line) THEN Continue(st)
    ELSE IF line.type = "content_block_delta" /\ line.delta.present
         THEN [st EXCEPT !.out = onDelta(st.out, line.delta.text, "text", n)]
         ELSE st

\* mutant: message_stop is skipped like any other event line
AnthropicStepNoBreak(line, st, n) ==
    IF IsEmpty(line) THEN Continue(st)
    ELSE IF HasPrefix(line, "event: ") THEN Continue(st)
    ELSE IF ~HasPrefix(line, "data: ") THEN Continue(st)
    ELSE IF ~Decodes(line) THEN Continue(st)
    ELSE IF line.type = "content_block_delta" /\ line.delta.present
                /\ line.delta.type = "text_delta"
         THEN [st EXCEPT !.out = onDelta(st.out, line.delta.text, "text", n)]
         ELSE st

\* Anthropic.Stream, the loop body after the ctx.Done() check
AnthropicStep(line, st, n) ==
    IF IsEmpty(line) THEN Continue(st)
    ELSE IF HasPrefix(line, "event: ")
         THEN IF line.rest = "message_stop" THEN Break(st) ELSE Continue(st)
    ELSE IF ~HasPrefix(line, "data: ") THEN Continue(st)
    ELSE IF ~Decodes(line) THEN Continue(st)
    ELSE IF line.type = "content_block_delta" /\ line.delta.present
                /\ line.delta.type = "text_delta"
         THEN [st EXCEPT !.out = onDelta(st.out, line.delta.text, "text", n)]
         ELSE st

ThinkingOpen == "<thinking>\n"
ThinkingClose == "\n</thinking>\n\n"
SourcesHeader == "\n\n---\n**Sources:**\n"
SourceLink(chunk) == "- [" \o chunk.title \o "](" \o chunk.uri \o ")\n"

\* Gemini.Stream: for _, chunk := range meta.GroundingChunks
RECURSIVE CollectChunks(_, _, _)
CollectChunks(meta, chunks, n) ==
    IF meta = <<>> THEN chunks
    ELSE CollectChunks(Tail(meta),
                       IF Head(meta).web
                       THEN Append(chunks, [title |-> Head(meta).title,
                                            uri |-> Head(meta).uri, line |-> n])
                       ELSE chunks,
                       n)

\* mutant: the flag is not cleared when the span is closed
GeminiPartKeepsFlag(part, st, n) ==
    IF part.thought
    THEN LET o == IF ~st.inThinking
                  THEN onDelta(st.out, ThinkingOpen, "open", n)
                  ELSE st.out
         IN  [st EXCEPT !.out = onDelta(o, part.text, "thought", n),
                        !.inThinking = TRUE]
    ELSE IF part.text # ""
    THEN LET o == IF st.inThinking
                  THEN onDelta(st.out, ThinkingClose, "close", n)
                  ELSE st.out
         IN  [st EXCEPT !.out = onDelta(o, part.text, "text", n)]
    ELSE st

\* Gemini.Stream: one part of candidate.Content.Parts
GeminiPart(part, st, n) ==
    IF part.thought
    THEN LET o == IF ~st.inThinking
                  THEN onDelta(st.out, ThinkingOpen, "open", n)
                  ELSE st.out
         IN  [st EXCEPT !.out = onDelta(o, part.text, "thought", n),
                        !.inThinking = TRUE]
    ELSE IF part.text # ""
    THEN LET o == IF st.inThinking
                  THEN onDelta(st.out, ThinkingClose, "close", n)
                  ELSE st.out
         IN  [st EXCEPT !.out = onDelta(o, part.text, "text", n),
                        !.inThinking = FALSE]
    ELSE st

\* Gemini.Stream: for _, part := range candidate.Content.Parts
RECURSIVE GeminiParts(_, _, _)
GeminiParts(parts, st, n) ==
    IF parts = <<>> THEN st
    ELSE GeminiParts(Tail(parts), GeminiPart(Head(parts), st, n), n)

\* Gemini.Stream, the loop body after the ctx.Done() check
GeminiStep(line, st, n) ==
    IF IsEmpty(line) THEN Continue(st)
    ELSE IF ~HasPrefix(line, "data: ") THEN Continue(st)
    ELSE IF ~Decodes(line) THEN Continue(st)
    ELSE IF Len(line.candidates) > 0
         THEN LET candidate == line.candidates[1]
                  collected == [st EXCEPT !.chunks =
                                   CollectChunks(candidate.meta, st.chunks, n)]
              IN  GeminiParts(candidate.parts, collected, n)
         ELSE st

Step(a, line, st, n) ==
    CASE a = "openai" -> OpenAIStep(line, st, n)
      [] a = "anthropic" -> AnthropicStep(line, st, n)
      [] a = "gemini" -> GeminiStep(line, st, n)

\* Gemini.Stream: for _, chunk := range groundingChunks { onDelta(...) }
RECURSIVE FlushSources(_, _)
FlushSources(chunks, out) ==
    IF chunks = <<>> THEN out
    ELSE FlushSources(Tail(chunks),
                      onDelta(out, SourceLink(Head(chunks)), "source", Head(chunks).line))

\* mutant: the Sources block is forwarded before the span is closed
AfterLoopSourcesFirst(a, st, n) ==
    IF a = "gemini"
    THEN LET sourced == IF Len(st.chunks) > 0
                        THEN FlushSources(st.chunks,
                                          onDelta(st.out, SourcesHeader, "header", n))
                        ELSE st.out
         IN  IF st.inThinking
             THEN onDelta(sourced, ThinkingClose, "close", n)
             ELSE sourced
    ELSE st.out

\* mutant: a span that is still open is not closed
AfterLoopNoClose(a, st, n) ==
    IF a = "gemini"
    THEN IF Len(st.chunks) > 0
         THEN FlushSources(st.chunks, onDelta(st.out, SourcesHeader, "header", n))
         ELSE st.out
    ELSE st.out

\* the code between the end of the loop and the scanner.Err() check
AfterLoop(a, st, n) ==
    IF a = "gemini"
    THEN LET closed == IF st.inThinking
                       THEN onDelta(st.out, ThinkingClose, "close", n)
                       ELSE st.out
         IN  IF Len(st.chunks) > 0
             THEN FlushSources(st.chunks, onDelta(closed, SourcesHeader, "header", n))
             ELSE closed
    ELSE st.out

\* if err := scanner.Err(); err != nil { return fmt.Errorf("stream error: %w", err) }
StreamReturn(scanErr) ==
    IF scanErr # "" THEN Errorf("stream error: ", scanErr) ELSE Nil

----------------------------------------------------------------------------
(* The content of a ChatResponse, as the pieces it is written from *)

Piece(txt, kind) == [txt |-> txt, kind |-> kind]
\* content.WriteString(txt)
WriteString(content, txt, kind) == Append(content, Piece(txt, kind))

\* ChatResponse{}
EmptyResponse == [content |-> <<>>]

\* Anthropic.Send: for _, c := range anthropicResp.Content
RECURSIVE AnthropicContent(_, _)
AnthropicContent(blocks, content) ==
    IF blocks = <<>> THEN content
    ELSE AnthropicContent(Tail(blocks),
                          IF Head(blocks).type = "text"
                          THEN WriteString(content, Head(blocks).text, "text")
                          ELSE content)

SendThinkingClose == "</thinking>\n\n"

\* Gemini.Send: one part of Candidates[0].Content.Parts; st is
\* [content, hasThinking]
GeminiSendPart(part, st) ==
    IF part.thought
    THEN LET c == IF ~st.hasThinking
                  THEN WriteString(st.content, ThinkingOpen, "open")
                  ELSE st.content
         IN  [content |-> WriteString(WriteString(c, part.text, "thought"), "\n", "newline"),
              hasThinking |-> TRUE]
    ELSE IF part.text # ""
    THEN LET c == IF st.hasThinking
                  THEN WriteString(st.content, SendThinkingClose, "close")
                  ELSE st.content
         IN  [content |-> WriteString(c, part.text, "text"), hasThinking |-> FALSE]
    ELSE st

\* Gemini.Send: for _, part := range geminiResp.Candidates[0].Content.Parts
RECURSIVE GeminiSendParts(_, _)
GeminiSendParts(parts, st) ==
    IF parts = <<>> THEN st
    ELSE GeminiSendParts(Tail(parts), GeminiSendPart(Head(parts), st))

\* Gemini.Send: for _, chunk := range meta.GroundingChunks
RECURSIVE GeminiSendLinks(_, _)
GeminiSendLinks(meta, content) ==
    IF meta = <<>> THEN content
    ELSE GeminiSendLinks(Tail(meta),
                         IF Head(meta).web
                         THEN WriteString(content, SourceLink(Head(meta)), "source")
                         ELSE content)

\* Gemini.Send: the content built from the first candidate
GeminiContentOf(candidate) ==
    LET st == GeminiSendParts(candidate.parts, [content |-> <<>>, hasThinking |-> FALSE])
        closed == IF st.hasThinking
                  THEN WriteString(st.content, SendThinkingClose, "close")
                  ELSE st.content
    IN  IF Len(candidate.meta) > 0
        THEN GeminiSendLinks(candidate.meta, WriteString(closed, SourcesHeader, "header"))
        ELSE closed

\* len(resp.Choices) == 0, len(resp.Content) == 0, len(resp.Candidates) == 0
NoChoices(body) == Len(body.items) = 0

\* the ChatResponse of a decoded body that has a first choice
ResponseOf(a, body) ==
    IF body.items = <<>> THEN EmptyResponse    \* excluded by the NoChoices check
    ELSE CASE a = "openai" ->
                [content |-> WriteString(<<>>, body.items[1], "text")]
           [] a = "anthropic" ->
                [content |-> AnthropicContent(body.items, <<>>)]
           [] a = "gemini" ->
                [content |-> GeminiContentOf(body.items[1])]

----------------------------------------------------------------------------
(* What lives outside a call: the provider registry, the configuration and *)
(* the calls that run side by side on one adapter value                    *)

\* no calls are run side by side
NoCalls == <<>>

\* a nil Provider
NoProvider == [name |-> "", id |-> 0]
\* no Get or List call has returned yet
NoAnswer == [call |-> "none", name |-> "", p |-> NoProvider, ok |-> FALSE,
             names |-> <<>>, at |-> 0]

\* NewRegistry(): providers: make(map[string]Provider)
NewRegistry ==
    /\ providers = [n \in {} |-> NoProvider]
    /\ registered = <<>>
    /\ answer = NoAnswer

\* the four fields of APIKeys
KeyProviders == {"openai", "anthropic", "groq", "openrouter"}
\* APIKeys{}
NoKeys == [p \in KeyProviders |-> ""]
\* os.ReadFile(configPath) returns os.ErrNotExist
NoFile == [exists |-> FALSE, keys |-> NoKeys]
\* Load has not returned a *Config yet
NoConfig == [loaded |-> FALSE, keys |-> NoKeys]

\* no environment key, no config file, no Config
ConfigUnused ==
    /\ env = NoKeys
    /\ file = NoFile
    /\ cfg = NoConfig
    /\ configErr = ""

\* the variables that a single call neither reads nor writes
\* Sanitize has not been called
NoOutput == [done |-> FALSE, text |-> <<>>]
SanitizeUnused == input = <<>> /\ output = NoOutput

\* NewModel with p as the default provider: the chat view, nothing streaming,
\* no command returned
NewModel(p) ==
    /\ streaming = FALSE
    /\ streamCancel = 0
    /\ commands = <<>>
    /\ currentView = "chat"
    /\ geminiThinking = FALSE
    /\ appended = 0
    /\ quit = FALSE
    /\ currentProvider = p

\* no program is running
UIUnused == NewModel("openai")

Elsewhere ==
    calls = NoCalls /\ NewRegistry /\ ConfigUnused /\ SanitizeUnused /\ UIUnused

----------------------------------------------------------------------------
(* State machine *)

\* the state of a call that has not started
NotStarted ==
    /\ wireReq = NoWire
    /\ respBody = NoBody
    /\ response = EmptyResponse
    /\ canceled = FALSE
    /\ pc = "idle"
    /\ result = Running
    /\ httpCalls = 0
    /\ fragments = <<>>
    /\ inThinking = FALSE
    /\ groundingChunks = <<>>
    /\ wire = <<>>
    /\ processed = 0
    /\ terminal = FALSE
    /\ status = 0
    /\ bodyRead = "none"
    /\ cancelPhase = "never"

\* a call followed to its return; the two options only shape the request
\* body and are left at their zero values
Init ==
    /\ adapter \in Adapters
    /\ op \in Ops
    /\ apiKey \in {"", "sk-test"}
    /\ enableSearch = FALSE
    /\ enableThought = FALSE
    /\ req \in Requests
    /\ NotStarted
    /\ Elsewhere

\* the caller's cancel function: closes ctx.Done()
Cancel ==
    /\ UNCHANGED elsewhere
    /\ ~canceled
    /\ canceled' = TRUE
    /\ cancelPhase' = pc
    /\ UNCHANGED <<adapter, op, apiKey, enableSearch, enableThought, req, wireReq,
                   respBody, response, pc, result, httpCalls, fragments,
                   inThinking, groundingChunks, wire, processed, terminal,
                   status, bodyRead>>

\* what the network does to one exchange
NetOutcomes == {"ok", "error", "cancelInDo", "readError", "cancelInRead"}

\* client.Do returns a non-nil error
DoFails(net) == canceled \/ net \in {"error", "cancelInDo"}
\* mutant: a context canceled before the call is not recognised
CtxErrOnlyLate(net) == net = "cancelInDo"

\* ctx.Err() != nil when client.Do has returned its error
CtxErrAfterDo(net) == canceled \/ net = "cancelInDo"
\* io.ReadAll(resp.Body) returns a non-nil error
ReadFails(net) == net \in {"readError", "cancelInRead"}
\* cancellation arrives while the call is between its suspension points
CancelArrives(net) == ~canceled /\ net \in {"cancelInDo", "cancelInRead"}

\* mutant: the key check is missing
NoAPIKeyUnchecked == FALSE

\* if o.apiKey == "" { return ErrNoAPIKey }: the first statement of every
\* Send and Stream
NoAPIKey == apiKey = ""

\* return without having touched the network
ReturnEarly(err) ==
    /\ result' = err
    /\ pc' = "done"
    /\ UNCHANGED <<adapter, op, apiKey, enableSearch, enableThought, req, wireReq,
                   respBody, response, canceled, httpCalls, fragments,
                   inThinking, groundingChunks, wire, processed, terminal,
                   status, bodyRead, cancelPhase>>

\* mutant: a rate-limited request is sent a second time
ReturnDecodedRetry(err, net, code, read, body, resp) ==
    /\ result' = err
    /\ pc' = "done"
    /\ httpCalls' = httpCalls + (IF code = 429 THEN 2 ELSE 1)
    /\ wireReq' = WireRequest(adapter, op, req, enableSearch, enableThought)
    /\ status' = code
    /\ bodyRead' = read
    /\ respBody' = body
    /\ response' = resp
    /\ canceled' = (canceled \/ CancelArrives(net))
    /\ cancelPhase' = IF CancelArrives(net) THEN "call" ELSE cancelPhase
    /\ UNCHANGED <<adapter, op, apiKey, enableSearch, enableThought, req,
                   fragments, inThinking, groundingChunks, wire, processed,
                   terminal>>

\* return after client.Do was called, with the body that was decoded and the
\* ChatResponse that is returned
ReturnDecoded(err, net, code, read, body, resp) ==
    /\ result' = err
    /\ pc' = "done"
    /\ httpCalls' = httpCalls + 1
    /\ wireReq' = WireRequest(adapter, op, req, enableSearch, enableThought)
    /\ status' = code
    /\ bodyRead' = read
    /\ respBody' = body
    /\ response' = resp
    /\ canceled' = (canceled \/ CancelArrives(net))
    /\ cancelPhase' = IF CancelArrives(net) THEN "call" ELSE cancelPhase
    /\ UNCHANGED <<adapter, op, apiKey, enableSearch, enableThought, req,
                   fragments, inThinking, groundingChunks, wire, processed,
                   terminal>>

\* return after client.Do was called, before any body was decoded
ReturnAfterDo(err, net, code, read) ==
    ReturnDecoded(err, net, code, read, NoBody, EmptyResponse)

\* OpenAI.Send, Anthropic.Send, Gemini.Send
Send ==
    /\ UNCHANGED elsewhere
    /\ pc = "idle"
    /\ op = "send"
    /\ \E net \in NetOutcomes, code \in Statuses, body \in Bodies(adapter) :
         IF NoAPIKey THEN ReturnEarly(ErrNoAPIKey)
         ELSE IF MarshalFails(adapter, req)
              THEN ReturnEarly(Errorf("failed to marshal request: ", "json: unsupported value"))
         ELSE IF CreateFails(adapter, req)
              THEN ReturnEarly(Errorf("failed to create request: ", "parse: invalid URL"))
         ELSE IF DoFails(net)
              THEN IF CtxErrAfterDo(net)
                   THEN ReturnAfterDo(ErrContextCanceled, net, 0, "none")
                   ELSE ReturnAfterDo(Errorf("request failed: ", "dial"), net, 0, "none")
         ELSE IF ReadFails(net)
              THEN ReturnAfterDo(Errorf("failed to read response: ", "read"), net, code, "fail")
         ELSE IF code = 429 THEN ReturnAfterDo(ErrRateLimited, net, code, "ok")
         ELSE IF code # 200
              THEN ReturnDecoded(APIError(adapter, code, body), net, code, "ok",
                                 body, EmptyResponse)
         ELSE IF ~Unmarshals(body)
              THEN ReturnDecoded(Errorf("failed to parse response: ", "json"), net, code,
                                 "ok", body, EmptyResponse)
         ELSE IF NoChoices(body)
              THEN ReturnDecoded(ErrInvalidResponse, net, code, "ok", body, EmptyResponse)
         ELSE ReturnDecoded(Nil, net, code, "ok", body, ResponseOf(adapter, body))

\* mutant: the body is scanned whatever the status, 429 apart
StreamAnyStatus ==
    /\ UNCHANGED elsewhere
    /\ pc = "idle"
    /\ op = "stream"
    /\ \E net \in NetOutcomes, code \in Statuses, body \in Bodies(adapter) :
         IF NoAPIKey THEN ReturnEarly(ErrNoAPIKey)
         ELSE IF MarshalFails(adapter, req)
              THEN ReturnEarly(Errorf("failed to marshal request: ", "json: unsupported value"))
         ELSE IF CreateFails(adapter, req)
              THEN ReturnEarly(Errorf("failed to create request: ", "parse: invalid URL"))
         ELSE IF DoFails(net)
              THEN IF CtxErrAfterDo(net)
                   THEN ReturnAfterDo(ErrContextCanceled, net, 0, "none")
                   ELSE ReturnAfterDo(Errorf("request failed: ", "dial"), net, 0, "none")
         ELSE IF code = 429 THEN ReturnAfterDo(ErrRateLimited, net, code, "none")
         ELSE /\ net = "ok"
              /\ pc' = "receiving"
              /\ httpCalls' = httpCalls + 1
              /\ wireReq' = WireRequest(adapter, op, req, enableSearch, enableThought)
              /\ status' = code
              /\ UNCHANGED <<adapter, op, apiKey, enableSearch, enableThought, req,
                             respBody, response, canceled, result, fragments,
                             inThinking, groundingChunks, wire, processed,
                             terminal, bodyRead, cancelPhase>>

\* OpenAI.Stream, Anthropic.Stream, Gemini.Stream up to bufio.NewScanner
Stream ==
    /\ UNCHANGED elsewhere
    /\ pc = "idle"
    /\ op = "stream"
    /\ \E net \in NetOutcomes, code \in Statuses, body \in Bodies(adapter) :
         IF NoAPIKey THEN ReturnEarly(ErrNoAPIKey)
         ELSE IF MarshalFails(adapter, req)
              THEN ReturnEarly(Errorf("failed to marshal request: ", "json: unsupported value"))
         ELSE IF CreateFails(adapter, req)
              THEN ReturnEarly(Errorf("failed to create request: ", "parse: invalid URL"))
         ELSE IF DoFails(net)
              THEN IF CtxErrAfterDo(net)
                   THEN ReturnAfterDo(ErrContextCanceled, net, 0, "none")
                   ELSE ReturnAfterDo(Errorf("request failed: ", "dial"), net, 0, "none")
         ELSE IF code = 429 THEN ReturnAfterDo(ErrRateLimited, net, code, "none")
         ELSE IF code # 200
              THEN \* respBody, _ := io.ReadAll(resp.Body): the read error is dropped
                   \* and whatever arrived (body, possibly undecodable) is used
                   ReturnDecoded(APIError(adapter, code, body), net, code,
                                 IF ReadFails(net) THEN "fail" ELSE "ok",
                                 body, EmptyResponse)
         ELSE /\ net = "ok"
              /\ pc' = "receiving"
              /\ httpCalls' = httpCalls + 1
              /\ wireReq' = WireRequest(adapter, op, req, enableSearch, enableThought)
              /\ status' = code
              /\ UNCHANGED <<adapter, op, apiKey, enableSearch, enableThought, req,
                             respBody, response, canceled, result, fragments,
                             inThinking, groundingChunks, wire, processed,
                             terminal, bodyRead, cancelPhase>>

\* the parser state held in the variables
ParserState == [out |-> fragments, inThinking |-> inThinking,
                chunks |-> groundingChunks, brk |-> FALSE]

\* mutant: the loop body runs before ctx.Done() is looked at
ScanLineCheckedLate ==
    /\ UNCHANGED elsewhere
    /\ pc = "receiving"
    /\ Len(wire) < MaxLines
    /\ \E line \in Lines(adapter) :
         LET n == Len(wire) + 1
             st == Step(adapter, line, ParserState, n)
         IN  /\ wire' = Append(wire, line)
             /\ processed' = processed + 1
             /\ inThinking' = st.inThinking
             /\ groundingChunks' = st.chunks
             /\ terminal' = st.brk
             /\ IF st.brk
                THEN /\ fragments' = AfterLoop(adapter, st, n + 1)
                     /\ result' = StreamReturn("")
                     /\ pc' = "done"
                ELSE /\ fragments' = st.out
                     /\ IF canceled
                        THEN result' = ErrContextCanceled /\ pc' = "done"
                        ELSE UNCHANGED <<result, pc>>
    /\ UNCHANGED <<adapter, op, apiKey, enableSearch, enableThought, req, wireReq,
                   respBody, response, canceled, httpCalls, status, bodyRead,
                   cancelPhase>>

\* scanner.Scan() returns true: one more line, then the ctx.Done() check and
\* the loop body; a break runs the code after the loop and returns
ScanLine ==
    /\ UNCHANGED elsewhere
    /\ pc = "receiving"
    /\ Len(wire) < MaxLines
    /\ \E line \in Lines(adapter) :
         /\ wire' = Append(wire, line)
         /\ IF canceled
            THEN /\ result' = ErrContextCanceled
                 /\ pc' = "done"
                 /\ UNCHANGED <<fragments, inThinking, groundingChunks,
                                processed, terminal>>
            ELSE LET n == Len(wire) + 1
                     st == Step(adapter, line, ParserState, n)
                 IN  /\ processed' = processed + 1
                     /\ inThinking' = st.inThinking
                     /\ groundingChunks' = st.chunks
                     /\ terminal' = st.brk
                     /\ IF st.brk
                        THEN /\ fragments' = AfterLoop(adapter, st, n + 1)
                             /\ result' = StreamReturn("")
                             /\ pc' = "done"
                        ELSE /\ fragments' = st.out
                             /\ UNCHANGED <<result, pc>>
    /\ UNCHANGED <<adapter, op, apiKey, enableSearch, enableThought, req, wireReq,
                   respBody, response, canceled, httpCalls, status, bodyRead,
                   cancelPhase>>

\* mutant: a body that ends before the terminal marker is a failure
ScanEOFIncomplete ==
    /\ UNCHANGED elsewhere
    /\ pc = "receiving"
    /\ fragments' = AfterLoop(adapter, ParserState, Len(wire) + 1)
    /\ result' = StreamReturn("unexpected EOF")
    /\ pc' = "done"
    /\ UNCHANGED <<adapter, op, apiKey, enableSearch, enableThought, req, wireReq,
                   respBody, response, canceled, httpCalls, inThinking,
                   groundingChunks, wire, processed, terminal, status,
                   bodyRead, cancelPhase>>

\* scanner.Scan() returns false at the end of the body: scanner.Err() is nil
ScanEOF ==
    /\ UNCHANGED elsewhere
    /\ pc = "receiving"
    /\ fragments' = AfterLoop(adapter, ParserState, Len(wire) + 1)
    /\ result' = StreamReturn("")
    /\ pc' = "done"
    /\ UNCHANGED <<adapter, op, apiKey, enableSearch, enableThought, req, wireReq,
                   respBody, response, canceled, httpCalls, inThinking,
                   groundingChunks, wire, processed, terminal, status,
                   bodyRead, cancelPhase>>

\* scanner.Scan() returns false on a failed read (connection reset, the
\* request's context canceled while the read blocks, a line over the
\* scanner's token limit): scanner.Err() is that error
ScanError ==
    /\ UNCHANGED elsewhere
    /\ pc = "receiving"
    /\ fragments' = AfterLoop(adapter, ParserState, Len(wire) + 1)
    /\ result' = StreamReturn(IF canceled THEN "context canceled"
                                          ELSE "unexpected EOF")
    /\ pc' = "done"
    /\ UNCHANGED <<adapter, op, apiKey, enableSearch, enableThought, req, wireReq,
                   respBody, response, canceled, httpCalls, inThinking,
                   groundingChunks, wire, processed, terminal, status,
                   bodyRead, cancelPhase>>

Next == Cancel \/ Send \/ Stream \/ ScanLine \/ ScanEOF \/ ScanError

Spec == Init /\ [][Next]_vars

----------------------------------------------------------------------------
(* Request translation on its own: every request up to the bounds, taken   *)
(* from the key check to json.Marshal                                      *)

\* the two options are fields of Gemini only
InitReq ==
    /\ adapter \in Adapters
    /\ op \in Ops
    /\ apiKey = "sk-test"
    /\ enableSearch \in BOOLEAN
    /\ enableThought \in BOOLEAN
    /\ adapter # "gemini" => ~enableSearch /\ ~enableThought
    /\ req \in AllRequests
    /\ NotStarted
    /\ Elsewhere

\* Send and Stream from their first statement to the struct they marshal
Translate ==
    /\ UNCHANGED elsewhere
    /\ pc = "idle"
    /\ ~NoAPIKey
    /\ wireReq = NoWire
    /\ wireReq' = WireRequest(adapter, op, req, enableSearch, enableThought)
    /\ UNCHANGED <<adapter, op, apiKey, enableSearch, enableThought, req,
                   respBody, response, canceled, pc, result, httpCalls,
                   fragments, inThinking, groundingChunks, wire, processed,
                   terminal, status, bodyRead, cancelPhase>>

NextReq == Translate

SpecReq == InitReq /\ [][NextReq]_vars

TypeOK ==
    /\ adapter \in Adapters
    /\ op \in Ops
    /\ pc \in {"idle", "receiving", "done"}
    /\ canceled \in BOOLEAN
    /\ inThinking \in BOOLEAN
    /\ Len(wire) <= MaxLines
    /\ processed <= Len(wire)
    /\ (pc = "done") = (result # Running)
    /\ req \in AllRequests
    /\ (httpCalls = 0) = (wireReq = NoWire) \/ pc = "idle"
    /\ result # Nil => response = EmptyResponse

----------------------------------------------------------------------------
(* Helpers of the properties *)

Returned == pc = "done"

RECURSIVE Concat(_)
Concat(strs) == IF strs = <<>> THEN "" ELSE Head(strs) \o Concat(Tail(strs))

\* the text the caller accumulates from the fragments
Accumulated(frs) == Concat([i \in 1..Len(frs) |-> frs[i].txt])

\* the lines that passed the cancellation check
ProcessedLines == SubSeq(wire, 1, processed)

Kinds(ks) == { i \in 1..Len(fragments) : fragments[i].kind \in ks }

----------------------------------------------------------------------------
(* C1: with an empty API key, Send and Stream of every adapter return      *)
(* ErrNoAPIKey, issue no HTTP request and forward no fragment, whatever    *)
(* the request and whether or not the context is canceled.                 *)
C1_MissingCredentialFirst ==
    apiKey = "" =>
        /\ httpCalls = 0
        /\ fragments = <<>>
        /\ pc # "receiving"
        /\ Returned => result = ErrNoAPIKey

C1_Witness ==
    /\ Returned /\ apiKey = "" /\ canceled /\ op = "stream" /\ adapter = "gemini"
    /\ result = ErrNoAPIKey

(* C2 as stated: a call started with the context already canceled always   *)
(* returns ErrContextCanceled.                                             *)
C2_AlwaysCanceled ==
    (Returned /\ cancelPhase = "idle") => result = ErrContextCanceled

(* C2 amended: a call started with the context already canceled never      *)
(* returns success and forwards no fragment; it returns ErrContextCanceled *)
(* whenever the API key is set and the request could be built, and         *)
(* otherwise ErrNoAPIKey (empty key) or the marshal/URL error.             *)
C2_CanceledBeforeStart ==
    cancelPhase = "idle" =>
        /\ fragments = <<>>
        /\ pc # "receiving"
        /\ Returned =>
             /\ result # Nil
             /\ result.kind \in {"ErrContextCanceled", "ErrNoAPIKey",
                                 "failed to marshal request: ",
                                 "failed to create request: "}
             /\ result.kind = "ErrNoAPIKey" <=> apiKey = ""
             /\ httpCalls = 1 <=> result = ErrContextCanceled
             /\ httpCalls = 0 <=> result # ErrContextCanceled

C2_Witness ==
    /\ Returned /\ cancelPhase = "idle" /\ apiKey # "" /\ httpCalls = 1
    /\ result = ErrContextCanceled /\ op = "stream"

(* C3: once cancellation is signalled while a stream call is receiving,    *)
(* the call returns ErrContextCanceled: never success, never another       *)
(* failure.                                                                *)
C3_CanceledWhileReceiving ==
    (Returned /\ op = "stream" /\ cancelPhase = "receiving")
        => result = ErrContextCanceled

(* C4 as stated: fragments are forwarded in the order in which the lines   *)
(* that carried them arrived.                                              *)
C4_WireOrderAll ==
    \A i, j \in Kinds({"text", "thought", "source"}) :
        i < j => fragments[i].line <= fragments[j].line

\* text and thought fragments follow the order of their lines, citation links
\* follow the order of theirs and come after every other fragment, and a
\* fragment produced inside the loop belongs to a line that was processed
AmendedWireOrder ==
    /\ \A i, j \in Kinds({"text", "thought"}) :
          i < j => fragments[i].line <= fragments[j].line
    /\ \A i, j \in Kinds({"source"}) :
          i < j => fragments[i].line <= fragments[j].line
    /\ \A i \in Kinds({"source"}), j \in Kinds({"text", "thought", "open", "close"}) :
          j < i
    /\ \A i \in Kinds({"text", "thought", "open"}) :
          fragments[i].line \in 1..Len(wire) /\ fragments[i].line <= processed

(* C4 amended: every fragment is forwarded before the call returns; text   *)
(* and thought fragments are forwarded in the order of the lines that      *)
(* carried them; Gemini's citation links are held back and forwarded after *)
(* every text and thought fragment, in the order received.                 *)
C4_FragmentsBeforeReturn ==
    /\ []AmendedWireOrder
    /\ [][Returned => fragments' = fragments]_vars
    /\ [][fragments' # fragments => op = "stream" /\ pc = "receiving"]_vars

C4_Witness ==
    /\ Returned /\ adapter = "gemini"
    /\ Cardinality(Kinds({"source"})) >= 1
    /\ \E i \in Kinds({"source"}), j \in Kinds({"text"}) :
          fragments[i].line < fragments[j].line

(* C5: every text passed to the fragment callback is non-empty.            *)
C5_FragmentsNonEmpty ==
    \A i \in 1..Len(fragments) : fragments[i].txt # ""

(* C6: an HTTP 429 response yields ErrRateLimited whatever the body is,    *)
(* also when reading the body fails, and forwards no fragment.             *)
C6_RateLimited ==
    (Returned /\ status = 429) => (result = ErrRateLimited /\ fragments = <<>>)

----------------------------------------------------------------------------
\* the delta content a line carries, "" when it carries none
OpenAIDeltaOf(line) ==
    IF line.prefix = "data: " /\ line.rest = "{json}" /\ line.choices # <<>>
    THEN Head(line.choices)
    ELSE ""

RECURSIVE OpenAIDeltas(_)
OpenAIDeltas(lines) ==
    IF lines = <<>> THEN ""
    ELSE OpenAIDeltaOf(Head(lines)) \o OpenAIDeltas(Tail(lines))

IsDone(line) == line.prefix = "data: " /\ line.rest = "[DONE]"

(* C7: OpenAI stream: when `data: [DONE]` is reached, the call returns     *)
(* success, the accumulated text is the concatenation, in order, of the    *)
(* non-empty delta contents of the chunks before [DONE], and nothing is    *)
(* read or forwarded after it.                                             *)
C7_OpenAIDone ==
    (adapter = "openai" /\ processed > 0 /\ IsDone(wire[processed])) =>
        /\ terminal
        /\ Returned
        /\ result = Nil
        /\ processed = Len(wire)
        /\ \A i \in 1..(processed - 1) : ~IsDone(wire[i])
        /\ Accumulated(fragments) = OpenAIDeltas(SubSeq(wire, 1, processed - 1))
        /\ Len(fragments) =
             Cardinality({ i \in 1..(processed - 1) : OpenAIDeltaOf(wire[i]) # "" })
        /\ \A i \in 1..Len(fragments) : fragments[i].line < processed

C7_Witness ==
    /\ adapter = "openai" /\ terminal /\ Returned /\ result = Nil
    /\ Len(wire) = 3
    /\ Accumulated(fragments) = "ab"

----------------------------------------------------------------------------
\* a data line whose event is a content_block_delta with a text delta
IsTextDelta(line) ==
    /\ line.prefix = "data: " /\ line.rest = "{json}"
    /\ line.type = "content_block_delta"
    /\ line.delta.present /\ line.delta.type = "text_delta"

IsMessageStop(line) == line.prefix = "event: " /\ line.rest = "message_stop"

RECURSIVE AnthropicTexts(_)
AnthropicTexts(lines) ==
    IF lines = <<>> THEN <<>>
    ELSE (IF IsTextDelta(Head(lines)) THEN << Head(lines).delta.text >> ELSE <<>>)
         \o AnthropicTexts(Tail(lines))

(* C8: Anthropic stream: exactly the content_block_delta data events with  *)
(* a text_delta forward a fragment, each its own text; every other line    *)
(* forwards nothing, so the accumulated text is the in-order concatenation *)
(* of the text deltas.                                                     *)
C8_AnthropicTextDeltasOnly ==
    adapter = "anthropic" =>
        /\ [i \in 1..Len(fragments) |-> fragments[i].txt] = AnthropicTexts(ProcessedLines)
        /\ \A i \in 1..Len(fragments) :
              /\ fragments[i].line \in 1..processed
              /\ IsTextDelta(wire[fragments[i].line])
        /\ Accumulated(fragments) = Concat(AnthropicTexts(ProcessedLines))

C8_Witness ==
    /\ adapter = "anthropic" /\ Returned /\ result = Nil
    /\ Accumulated(fragments) = "ab"
    /\ \E i \in 1..processed :
          wire[i].rest = "{json}" /\ wire[i].delta.present /\ ~IsTextDelta(wire[i])

(* C9: Anthropic stream: the `event: message_stop` line ends the stream:   *)
(* the call returns success at that line, no later line is read, and no    *)
(* fragment is forwarded at or after it.                                   *)
C9_AnthropicMessageStop ==
    adapter = "anthropic" =>
        \A i \in 1..processed :
            IsMessageStop(wire[i]) =>
                /\ terminal
                /\ Returned
                /\ result = Nil
                /\ i = Len(wire)
                /\ \A k \in 1..Len(fragments) : fragments[k].line < i

C9_Witness ==
    /\ adapter = "anthropic" /\ Returned /\ result = Nil /\ terminal
    /\ IsMessageStop(wire[Len(wire)])
    /\ Len(fragments) >= 1

----------------------------------------------------------------------------
\* the parts of the first candidate of a line, none for a line that is skipped
GeminiPartsOf(line) ==
    IF line.prefix = "data: " /\ line.rest = "{json}" /\ line.candidates # <<>>
    THEN Head(line.candidates).parts
    ELSE <<>>

RECURSIVE GeminiAllParts(_)
GeminiAllParts(lines) ==
    IF lines = <<>> THEN <<>>
    ELSE GeminiPartsOf(Head(lines)) \o GeminiAllParts(Tail(lines))

\* the parts that forward their text: thought parts and non-empty answer parts
ForwardingParts(parts) ==
    SelectSeq(parts, LAMBDA p : p.thought \/ p.text # "")

ContentFragments ==
    SelectSeq(fragments, LAMBDA f : f.kind \in {"thought", "text"})

\* the thinking-span discipline of the fragment sequence, for a given close marker
SpanDiscipline(closeMarker) ==
    \A i \in 1..Len(fragments) :
        LET f == fragments[i]
            prev == IF i = 1 THEN "start" ELSE fragments[i - 1].kind
        IN  /\ f.kind = "open" =>
                 /\ f.txt = "<thinking>\n"
                 /\ prev \in {"start", "text"}
                 /\ i < Len(fragments) /\ fragments[i + 1].kind = "thought"
            /\ f.kind = "thought" => prev \in {"open", "thought"}
            /\ f.kind = "close" => f.txt = closeMarker /\ prev = "thought"
            /\ f.kind = "text" => f.txt # "" /\ prev \in {"start", "text", "close"}

\* inThinking is true exactly when the last marker forwarded opened a span
FlagMatchesSpan ==
    LET markers == Kinds({"open", "close"})
    IN  inThinking = (/\ markers # {}
                      /\ \E m \in markers :
                            /\ \A k \in markers : k <= m
                            /\ fragments[m].kind = "open")

\* every forwarding part of the processed lines forwards its own text, in order
PartsVerbatim ==
    LET ps == ForwardingParts(GeminiAllParts(ProcessedLines))
        cs == ContentFragments
    IN  /\ Len(cs) = Len(ps)
        /\ \A i \in 1..Len(ps) :
              /\ cs[i].txt = ps[i].text
              /\ cs[i].kind = (IF ps[i].thought THEN "thought" ELSE "text")

(* C10 as stated: the first answer part after a run of thought parts       *)
(* forwards exactly `</thinking>\n\n` before its text.                     *)
C10_SpanAsStated ==
    (adapter = "gemini" /\ pc = "receiving") =>
        /\ SpanDiscipline("</thinking>\n\n")
        /\ FlagMatchesSpan
        /\ PartsVerbatim

(* C10 amended: with the flag initially false, the first thought part of a *)
(* run forwards `<thinking>\n` and sets the flag, later thought parts of   *)
(* the run forward only their text, the first following answer part with   *)
(* non-empty text forwards exactly `\n</thinking>\n\n` (leading newline    *)
(* included), clears the flag and then forwards its text; an answer part   *)
(* with empty text forwards nothing and leaves the span open; answer parts *)
(* outside a span forward no marker.                                       *)
C10_ThinkingSpan ==
    (adapter = "gemini" /\ pc = "receiving") =>
        /\ SpanDiscipline("\n</thinking>\n\n")
        /\ FlagMatchesSpan
        /\ PartsVerbatim

C10_Witness ==
    /\ adapter = "gemini" /\ pc = "receiving" /\ ~inThinking
    /\ Len(fragments) = 5
    /\ [i \in 1..5 |-> fragments[i].kind] = <<"open", "thought", "thought", "close", "text">>

----------------------------------------------------------------------------
\* thinking spans opened and not closed in the fragments forwarded so far
OpenSpans == Cardinality(Kinds({"open"})) - Cardinality(Kinds({"close"}))

\* the step is the return of a stream call that was in the read loop
LoopReturns == pc = "receiving" /\ pc' = "done"

(* C11 as stated: no returned Gemini stream call leaves an open thinking   *)
(* span.                                                                   *)
C11_NoOpenSpanAtReturn ==
    (adapter = "gemini" /\ op = "stream" /\ Returned) => OpenSpans = 0

(* C11 amended: when the read loop of a Gemini stream ends, at the end of  *)
(* the body or on a read failure, while the parser is inside a thinking    *)
(* span, the close marker `\n</thinking>\n\n` is forwarded once before the *)
(* call returns and nothing is forwarded for the span otherwise, so every  *)
(* call that returns anything but Canceled leaves no open span; a call     *)
(* that returns Canceled from inside the loop forwards nothing more.       *)
C11_FlushAtStreamEnd ==
    /\ [](adapter = "gemini" /\ op = "stream" /\ Returned
              /\ result # ErrContextCanceled => OpenSpans = 0)
    /\ [][adapter = "gemini" /\ LoopReturns =>
             IF result' = ErrContextCanceled
             THEN fragments' = fragments
             ELSE IF inThinking
             THEN /\ Len(fragments') > Len(fragments)
                  /\ SubSeq(fragments', 1, Len(fragments)) = fragments
                  /\ fragments'[Len(fragments) + 1].txt = "\n</thinking>\n\n"
                  /\ \A i \in (Len(fragments) + 2)..Len(fragments') :
                        fragments'[i].kind \in {"header", "source"}
             ELSE \A i \in 1..Len(fragments') :
                     fragments'[i].kind = "close" => i <= Len(fragments)]_vars

C11_Witness ==
    /\ adapter = "gemini" /\ Returned /\ result # ErrContextCanceled
    /\ \E i \in 1..Len(fragments) :
          /\ fragments[i].kind = "close"
          /\ fragments[i].line > Len(wire)
          /\ fragments[i - 1].kind = "thought"

----------------------------------------------------------------------------
\* the citations of a line: the web chunks of its first candidate
RECURSIVE WebChunks(_)
WebChunks(meta) ==
    IF meta = <<>> THEN <<>>
    ELSE (IF Head(meta).web THEN << [title |-> Head(meta).title, uri |-> Head(meta).uri] >>
                            ELSE <<>>) \o WebChunks(Tail(meta))

RECURSIVE GeminiCitations(_)
GeminiCitations(lines) ==
    IF lines = <<>> THEN <<>>
    ELSE (IF Head(lines).prefix = "data: " /\ Head(lines).rest = "{json}"
             /\ Head(lines).candidates # <<>>
          THEN WebChunks(Head(Head(lines).candidates).meta)
          ELSE <<>>) \o GeminiCitations(Tail(lines))

\* the fragments of the Sources block
SourcesFragments == SelectSeq(fragments, LAMBDA f : f.kind \in {"header", "source"})

(* C12: in a Gemini stream the citations of the lines read are only        *)
(* buffered, in the order received, while the loop runs; the Sources block *)
(* is forwarded at most once, after the loop has ended, after every        *)
(* thought and answer fragment and the thinking close marker, as the       *)
(* header followed by one link per buffered citation in buffer order.      *)
C12_SourcesAfterLoop ==
    (adapter = "gemini" /\ op = "stream") =>
        LET block == Kinds({"header", "source"})
            buffered == [i \in 1..Len(groundingChunks) |->
                           [title |-> groundingChunks[i].title,
                            uri |-> groundingChunks[i].uri]]
        IN  /\ buffered = GeminiCitations(ProcessedLines)
            /\ pc # "done" => block = {}
            /\ \A i \in block : \A j \in 1..Len(fragments) : j > i => j \in block
            /\ block # {} =>
                  /\ Len(SourcesFragments) = 1 + Len(buffered)
                  /\ SourcesFragments[1] =
                        Fragment("\n\n---\n**Sources:**\n", "header", Len(wire) + 1)
                  /\ \A k \in 1..Len(buffered) :
                        /\ SourcesFragments[k + 1].kind = "source"
                        /\ SourcesFragments[k + 1].txt =
                              "- [" \o buffered[k].title \o "](" \o buffered[k].uri \o ")\n"
            /\ (Returned /\ status = 200 /\ result # ErrContextCanceled) =>
                  (block # {}) = (buffered # <<>>)

C12_Witness ==
    /\ adapter = "gemini" /\ Returned /\ Len(fragments) = 7
    /\ [i \in 1..7 |-> fragments[i].kind] =
          <<"text", "open", "thought", "close", "header", "source", "source">>
    /\ fragments[4].line = Len(wire) + 1
    /\ fragments[6].txt # fragments[7].txt

----------------------------------------------------------------------------
\* a send call that returned a ChatResponse
SendSucceeded == op = "send" /\ Returned /\ result = Nil

\* positions of the pieces of the returned content that have one of the kinds
PieceKinds(ks) == { i \in 1..Len(response.content) : response.content[i].kind \in ks }

(* C13: the content returned by a Gemini send wraps the thought parts of   *)
(* the first candidate in one <thinking> block, with balanced tags, and    *)
(* all thinking content precedes all answer content, whatever the order of *)
(* the parts.                                                              *)
C13_OneThinkingBlockFirst ==
    (adapter = "gemini" /\ SendSucceeded) =>
        /\ Cardinality(PieceKinds({"open"})) <= 1
        /\ Cardinality(PieceKinds({"open"})) = Cardinality(PieceKinds({"close"}))
        /\ \A i \in PieceKinds({"thought"}) : \A j \in PieceKinds({"text"}) : i < j

----------------------------------------------------------------------------
(* C14: the content returned by a Gemini send ends with the Sources block, *)
(* the header `\n\n---\n**Sources:**\n` followed by one link line per      *)
(* citation of the first candidate in the order received, and has no       *)
(* Sources block when there is no citation.                                *)
C14_SourcesBlock ==
    (adapter = "gemini" /\ SendSucceeded) =>
        LET cites == WebChunks(respBody.items[1].meta)
            c == response.content
            first == Len(c) - Len(cites)
        IN  IF cites = <<>>
            THEN PieceKinds({"header", "source"}) = {}
            ELSE /\ first >= 1
                 /\ PieceKinds({"header", "source"}) = first..Len(c)
                 /\ c[first] = Piece("\n\n---\n**Sources:**\n", "header")
                 /\ \A k \in 1..Len(cites) :
                       c[first + k] =
                           Piece("- [" \o cites[k].title \o "](" \o cites[k].uri \o ")\n",
                                 "source")

----------------------------------------------------------------------------
\* a data line whose JSON fails to decode
Malformed(line) ==
    HasPrefix(line, "data: ") /\ ~Decodes(line) /\ line.rest # "[DONE]"

\* the loop body run over a sequence of lines
RECURSIVE Replay(_, _, _)
Replay(a, lines, st) ==
    IF lines = <<>> THEN st
    ELSE Replay(a, Tail(lines), Step(a, Head(lines), st, 0))

\* what was forwarded or buffered, without the position of its line
Texts(s) == [i \in 1..Len(s) |-> [txt |-> s[i].txt, kind |-> s[i].kind]]
Links(s) == [i \in 1..Len(s) |-> [title |-> s[i].title, uri |-> s[i].uri]]

(* C15: in all three adapters a data line whose JSON fails to decode is    *)
(* skipped: the step that reads it forwards nothing, leaves the thinking   *)
(* flag and the citation buffer as they are and does not end the call, and *)
(* the lines read so far are processed exactly as they would be with the   *)
(* malformed lines removed.                                                *)
C15_MalformedLineSkipped ==
    /\ [][(pc = "receiving" /\ ~canceled /\ Len(wire') = Len(wire) + 1
            /\ Malformed(wire'[Len(wire')])) =>
              /\ fragments' = fragments
              /\ inThinking' = inThinking
              /\ groundingChunks' = groundingChunks
              /\ pc' = "receiving" /\ result' = Running]_vars
    /\ [](pc = "receiving" =>
              LET without == SelectSeq(ProcessedLines, LAMBDA l : ~Malformed(l))
                  st == Replay(adapter, without,
                               [out |-> <<>>, inThinking |-> FALSE,
                                chunks |-> <<>>, brk |-> FALSE])
              IN  /\ Texts(fragments) = Texts(st.out)
                  /\ inThinking = st.inThinking
                  /\ Links(groundingChunks) = Links(st.chunks))

C15_Witness ==
    /\ pc = "receiving" /\ processed = 3
    /\ Malformed(wire[2])
    /\ \E i, j \in 1..Len(fragments) : fragments[i].line = 1 /\ fragments[j].line = 3

----------------------------------------------------------------------------
(* C16: a read failure after the 200 headers and before the terminal       *)
(* marker or the end of the body makes the stream call return              *)
(* ErrStreamClosed, never success.                                         *)
C16_StreamClosed ==
    [][(ScanError /\ ~canceled) => result' = ErrStreamClosed]_vars

----------------------------------------------------------------------------
\* the kinds of the error taxonomy; VendorError(message) is the error built
\* from a response with an error status
TaxonomyKinds ==
    { ErrNoAPIKey.kind, ErrRateLimited.kind, ErrInvalidResponse.kind,
      ErrStreamClosed.kind, ErrContextCanceled.kind,
      "API error: ", "API error: status " }

(* C17: every failure returned by Send or Stream of any adapter is one of  *)
(* MissingCredential, RateLimited, InvalidResponse,                        *)
(* StreamClosedUnexpectedly, Canceled or VendorError(message), connection  *)
(* failures, unparsable 200 bodies and mid-stream read errors included.    *)
C17_SixKinds ==
    (Returned /\ result # Nil) => result.kind \in TaxonomyKinds

----------------------------------------------------------------------------
\* a call that returned on a response whose status is neither 200 nor 429
ErrorStatusReturned == Returned /\ status \notin {0, 200, 429}

(* C18: for every adapter, Send and Stream alike, a response with a        *)
(* non-2xx status other than 429 yields a failure that carries the         *)
(* message of the vendor's error envelope when the body decodes to an      *)
(* envelope with an error object, and the fallback text `status <code>`    *)
(* when the body does not decode or decodes to JSON without an error       *)
(* object.                                                                 *)
C18_VendorMessageOrStatus ==
    (ErrorStatusReturned /\ status \notin 200..299 /\ bodyRead # "fail") =>
        IF Unmarshals(respBody) /\ respBody.hasError
        THEN result.msg = "API error: " \o respBody.message
        ELSE result.msg = "API error: status " \o ToString(status)

----------------------------------------------------------------------------
(* C19: a Send that receives a 2xx response whose decoded envelope has     *)
(* zero choices (OpenAI), content blocks (Anthropic) or candidates         *)
(* (Gemini) fails with ErrInvalidResponse and returns the empty            *)
(* ChatResponse.                                                           *)
C19_EmptyEnvelopeInvalid ==
    (op = "send" /\ Returned /\ status \in 200..299 /\ bodyRead = "ok"
        /\ Unmarshals(respBody) /\ Len(respBody.items) = 0) =>
            result = ErrInvalidResponse /\ response = EmptyResponse

----------------------------------------------------------------------------
\* the contents of the system-role messages of the request, in order
SystemContents ==
    LET sys == SelectSeq(req.messages, LAMBDA m : m.role = "system")
    IN  [i \in 1..Len(sys) |-> sys[i].content]

(* C20: the request Anthropic marshals, in Send and in Stream, has no      *)
(* system-role entry in `messages`, and its `system` string is the         *)
(* contents of the request's system messages concatenated in their         *)
(* original order (the content itself when there is one).                  *)
C20_SystemConcatenated ==
    (adapter = "anthropic" /\ wireReq # NoWire) =>
        /\ \A i \in 1..Len(wireReq.messages) : wireReq.messages[i].role # "system"
        /\ wireReq.system = Concat(SystemContents)

----------------------------------------------------------------------------
\* the request messages that are not system messages, in order
NonSystem == SelectSeq(req.messages, LAMBDA m : m.role # "system")

\* the request was translated
Translated == wireReq # NoWire

(* C21: in the request Anthropic marshals every tool-role message has wire *)
(* role `user`, user and assistant messages keep their role, and so every  *)
(* wire message has role user or assistant.                                *)
C21_ToolBecomesUser ==
    (adapter = "anthropic" /\ Translated) =>
        /\ Len(wireReq.messages) = Len(NonSystem)
        /\ \A i \in 1..Len(NonSystem) :
              /\ NonSystem[i].role = "tool" => wireReq.messages[i].role = "user"
              /\ NonSystem[i].role \in {"user", "assistant"} =>
                    wireReq.messages[i].role = NonSystem[i].role
              /\ wireReq.messages[i].role \in {"user", "assistant"}

C21_Witness ==
    /\ adapter = "anthropic" /\ Translated
    /\ [i \in 1..Len(req.messages) |-> req.messages[i].role] = <<"tool", "assistant", "user">>
    /\ [i \in 1..Len(wireReq.messages) |-> wireReq.messages[i].role]
          = <<"user", "assistant", "user">>

----------------------------------------------------------------------------
(* C22: the request Anthropic marshals, in Send and in Stream, always      *)
(* carries max_tokens, and its value is positive: 4096 when the request's  *)
(* MaxTokens is 0 (not set) and the request's value otherwise.             *)
C22_MaxTokensDefault ==
    (adapter = "anthropic" /\ Translated) =>
        /\ "max_tokens" \in AnthropicFields(wireReq)
        /\ wireReq.max_tokens > 0
        /\ wireReq.max_tokens = (IF req.maxTokens = 0 THEN 4096 ELSE req.maxTokens)

C22_Witness ==
    /\ adapter = "anthropic" /\ Translated /\ op = "stream"
    /\ req.maxTokens = 0 /\ wireReq.max_tokens = 4096

----------------------------------------------------------------------------
(* C23: the request OpenAI marshals has one wire message per request       *)
(* message, with the same role and content at the same index, system       *)
(* messages included, and Send and Stream build the same struct but for    *)
(* the stream field, which is true exactly for Stream.                     *)
C23_OpenAIMessagesInline ==
    (adapter = "openai" /\ Translated) =>
        /\ Len(wireReq.messages) = Len(req.messages)
        /\ \A i \in 1..Len(req.messages) :
              /\ wireReq.messages[i].role = req.messages[i].role
              /\ wireReq.messages[i].content = req.messages[i].content
        /\ wireReq.stream = (op = "stream")
        /\ [wireReq EXCEPT !.stream = FALSE] = WireRequest("openai", "send", req, FALSE, FALSE)
        /\ [wireReq EXCEPT !.stream = TRUE] = WireRequest("openai", "stream", req, FALSE, FALSE)

C23_Witness ==
    /\ adapter = "openai" /\ Translated /\ op = "stream"
    /\ Len(req.messages) = 3
    /\ req.messages[2].role = "system" /\ wireReq.messages[2].role = "system"
    /\ wireReq.messages[1] # wireReq.messages[3]

----------------------------------------------------------------------------
(* C24: in the request Gemini builds, `contents` holds the non-system      *)
(* messages of the request in their order, assistant messages with role    *)
(* `model` and all others with role `user`; systemInstruction is absent    *)
(* without a system message and otherwise holds the content of the last    *)
(* system message of the request.                                          *)
C24_GeminiContents ==
    (adapter = "gemini" /\ Translated) =>
        /\ Len(wireReq.contents) = Len(NonSystem)
        /\ \A i \in 1..Len(NonSystem) :
              /\ wireReq.contents[i].text = NonSystem[i].content
              /\ wireReq.contents[i].role =
                    (IF NonSystem[i].role = "assistant" THEN "model" ELSE "user")
        /\ IF SystemContents = <<>>
           THEN ~wireReq.systemInstruction.present
           ELSE /\ wireReq.systemInstruction.present
                /\ wireReq.systemInstruction.text = SystemContents[Len(SystemContents)]

C24_Witness ==
    /\ adapter = "gemini" /\ Translated
    /\ req.messages = << Message("system", "A"), Message("assistant", "B"),
                         Message("system", "B") >>
    /\ wireReq.systemInstruction.text = "B"
    /\ wireReq.contents[1].role = "model"

----------------------------------------------------------------------------
\* the thinking configuration of the request Gemini builds; absent when the
\* generation config is absent
SentThinkingConfig ==
    IF wireReq.generationConfig.present
    THEN wireReq.generationConfig.thinkingConfig
    ELSE NoThinkingConfig

(* C25: in the request Gemini builds with the reasoning flag on, a model   *)
(* of the Gemini 3 generation gets a thinking configuration with a named   *)
(* level (low, medium or high) and no token budget, an older thinking      *)
(* model gets one with a token budget and no level, and a model that is    *)
(* no thinking model gets none; with the flag off no thinking              *)
(* configuration is sent; the web-search tool is attached exactly when the *)
(* search flag is on.                                                      *)
C25_ThinkingShape ==
    (adapter = "gemini" /\ Translated) =>
        LET tc == SentThinkingConfig
        IN  /\ tc.present => (tc.thinkingLevel = "") # (tc.thinkingBudget = 0)
            /\ (enableThought /\ req.model = "gemini-3-pro-preview") =>
                  /\ tc.present
                  /\ tc.thinkingLevel \in {"low", "medium", "high"}
                  /\ tc.thinkingBudget = 0
            /\ (enableThought /\ req.model = "gemini-2.5-flash") =>
                  /\ tc.present
                  /\ tc.thinkingLevel = ""
                  /\ tc.thinkingBudget > 0
            /\ (enableThought /\ req.model = "gemini-2.0-flash") => ~tc.present
            /\ ~enableThought => ~tc.present
            /\ wireReq.tools = (IF enableSearch THEN << "googleSearch" >> ELSE <<>>)

C25_Witness ==
    /\ adapter = "gemini" /\ Translated /\ enableThought /\ ~enableSearch
    /\ req.model = "gemini-3-pro-preview" /\ req.temp = "zero" /\ req.maxTokens = 0
    /\ wireReq.generationConfig.present
    /\ wireReq.generationConfig.thinkingConfig.thinkingLevel = "medium"
    /\ wireReq.tools = <<>>

----------------------------------------------------------------------------
\* the request messages an adapter does not extract: all of them for OpenAI,
\* the non-system ones for Anthropic and Gemini
Kept == IF adapter = "openai" THEN req.messages ELSE NonSystem

\* the wire message list, reduced to [role, content]
WireMessages ==
    IF adapter = "gemini"
    THEN [i \in 1..Len(wireReq.contents) |->
            [role |-> wireReq.contents[i].role, content |-> wireReq.contents[i].text]]
    ELSE [i \in 1..Len(wireReq.messages) |->
            [role |-> wireReq.messages[i].role, content |-> wireReq.messages[i].content]]

\* the wire role of a request role
WireRole(role) ==
    CASE adapter = "openai" -> role
      [] adapter = "anthropic" -> IF role = "tool" THEN "user" ELSE role
      [] adapter = "gemini" -> IF role = "assistant" THEN "model" ELSE "user"

(* C26: for all three adapters the wire message list is the list of the    *)
(* request messages that are not extracted, in conversation order: the     *)
(* i-th wire message is the i-th kept request message, none is dropped and *)
(* none is duplicated.                                                     *)
C26_OrderPreserved ==
    Translated =>
        /\ Len(WireMessages) = Len(Kept)
        /\ \A i \in 1..Len(Kept) :
              /\ WireMessages[i].content = Kept[i].content
              /\ WireMessages[i].role = WireRole(Kept[i].role)

C26_Witness ==
    /\ Translated /\ adapter = "gemini"
    /\ req.messages = << Message("assistant", "B"), Message("system", "A"),
                         Message("user", "A") >>
    /\ WireMessages = << [role |-> "model", content |-> "B"],
                         [role |-> "user", content |-> "A"] >>

----------------------------------------------------------------------------
(* C27: a Send or Stream call of any adapter calls client.Do at most once, *)
(* and only as its first network step: nothing is sent again after a 429,  *)
(* a vendor error, a connection failure or a read failure in the stream.   *)
C27_SingleAttempt ==
    /\ [](httpCalls <= 1)
    /\ [][httpCalls' # httpCalls => pc = "idle" /\ httpCalls' = 1]_vars

C27_Witness ==
    /\ Returned /\ op = "stream" /\ httpCalls = 1
    /\ result.kind = "stream error: " /\ processed > 0

----------------------------------------------------------------------------
(* The provider registry: Register, Get and List on one Registry value     *)

\* how many Register calls a behaviour makes
MaxRegisters == 3

\* no call is followed: the adapters are only values that are registered
Uncalled ==
    /\ adapter = "openai"
    /\ op = "send"
    /\ apiKey = ""
    /\ enableSearch = FALSE
    /\ enableThought = FALSE
    /\ req = CHOOSE r \in Requests : TRUE
    /\ NotStarted

\* provider values: two of each adapter type, told apart by id; Name()
\* returns "openai", "anthropic" or "gemini"
Providers == [name : Adapters, id : {1, 2}]
\* the names that are looked up: one of them is never registered
LookupNames == Adapters \cup {"groq"}

\* the orders in which a range over a map with key set S can visit it
Orders(S) ==
    { s \in [1..Cardinality(S) -> S] :
        \A i, j \in 1..Cardinality(S) : s[i] = s[j] => i = j }

\* mutant: an entry that exists is not overwritten
RegisterKeepFirst(p) ==
    /\ Len(registered) < MaxRegisters
    /\ providers' = [n \in DOMAIN providers \cup {p.name} |->
                        IF n \in DOMAIN providers THEN providers[n] ELSE p]
    /\ registered' = Append(registered, p)
    /\ UNCHANGED <<answer, callVars, calls, configVars, sanitizeVars, uiVars>>

\* func (r *Registry) Register(p Provider) { r.providers[p.Name()] = p }
Register(p) ==
    /\ Len(registered) < MaxRegisters
    /\ providers' = [n \in DOMAIN providers \cup {p.name} |->
                        IF n = p.name THEN p ELSE providers[n]]
    /\ registered' = Append(registered, p)
    /\ UNCHANGED <<answer, callVars, calls, configVars, sanitizeVars, uiVars>>

\* p, ok := r.providers[name]; return p, ok
Get(name) ==
    /\ answer' = [call |-> "get", name |-> name,
                  p |-> IF name \in DOMAIN providers THEN providers[name]
                        ELSE NoProvider,
                  ok |-> name \in DOMAIN providers,
                  names |-> <<>>, at |-> Len(registered)]
    /\ UNCHANGED <<providers, registered, callVars, calls, configVars, sanitizeVars, uiVars>>

\* for name := range r.providers { names = append(names, name) }: the order
\* of a range over a map is not specified
List ==
    /\ \E names \in Orders(DOMAIN providers) :
         answer' = [call |-> "list", name |-> "", p |-> NoProvider,
                    ok |-> FALSE, names |-> names, at |-> Len(registered)]
    /\ UNCHANGED <<providers, registered, callVars, calls, configVars, sanitizeVars, uiVars>>

InitRegistry == Uncalled /\ Elsewhere

NextRegistry ==
    \/ \E p \in Providers : Register(p)
    \/ \E name \in LookupNames : Get(name)
    \/ List

SpecRegistry == InitRegistry /\ [][NextRegistry]_vars

\* the Register calls that had been made when the last answer was given
RegisteredThen == SubSeq(registered, 1, answer.at)
\* the positions of the Register calls made under a name
Under(name) == { i \in 1..Len(RegisteredThen) : RegisteredThen[i].name = name }
Last(S) == CHOOSE i \in S : \A j \in S : j <= i
NamesThen == { RegisteredThen[i].name : i \in 1..Len(RegisteredThen) }

(* C28: after any sequence of Register calls, Get(name) returns the        *)
(* provider most recently registered under that name together with true,   *)
(* Get of a name nothing was registered under returns the nil provider     *)
(* and false, and List returns every registered name exactly once, so its  *)
(* length is the number of distinct names.                                 *)
C28_Registry ==
    /\ answer.call = "get" =>
          IF Under(answer.name) = {}
          THEN ~answer.ok /\ answer.p = NoProvider
          ELSE answer.ok /\ answer.p = RegisteredThen[Last(Under(answer.name))]
    /\ answer.call = "list" =>
          /\ \A i, j \in 1..Len(answer.names) :
                answer.names[i] = answer.names[j] => i = j
          /\ { answer.names[i] : i \in 1..Len(answer.names) } = NamesThen
          /\ Len(answer.names) = Cardinality(NamesThen)

\* a name was registered twice with different providers and then looked up
C28_Witness ==
    /\ answer.call = "get"
    /\ Cardinality(Under(answer.name)) = 2
    /\ RegisteredThen[Last(Under(answer.name))] #
          RegisteredThen[CHOOSE i \in Under(answer.name) : i # Last(Under(answer.name))]
    /\ Len(RegisteredThen) = 3

----------------------------------------------------------------------------
(* The configuration: Load, SetAPIKey and Save against the config file and *)
(* the process environment.  Only the APIKeys field is followed; the keys  *)
(* are named after where they come from.                                   *)

\* the value of OPENAI_API_KEY, ANTHROPIC_API_KEY, ... when it is set
EnvKey(p) == "env-" \o p
\* the environments: the first two variables are set or not
Environments ==
    { [p \in KeyProviders |-> IF p \in S THEN EnvKey(p) ELSE ""] :
        S \in SUBSET {"openai", "anthropic"} }
\* the config file when the program starts: absent, without keys, or with a
\* key stored by an earlier run
Files ==
    { NoFile }
    \cup { [exists |-> TRUE, keys |-> [NoKeys EXCEPT !["openai"] = k]] :
             k \in {"", "file-openai"} }
\* the arguments of SetAPIKey
SetProviders == {"openai", "anthropic", "mistral"}
\* "memory-key" names a key the user only ever sets with persist=false
SetKeys == {"", "user-key", "memory-key"}
SetArguments ==
    { a \in [key : SetKeys, persist : BOOLEAN] : a.key = "memory-key" => ~a.persist }
\* the file system lets an operation through or fails it
IOOutcomes == {"ok", "fail"}

\* func (c *Config) applyEnvOverrides()
applyEnvOverrides(keys) ==
    [p \in KeyProviders |-> IF env[p] # "" THEN env[p] ELSE keys[p]]

\* json.Unmarshal(data, cfg) on DefaultConfig(): a key the file omits
\* (omitempty) keeps its default, the empty string
Unmarshal(f) == IF f.exists THEN f.keys ELSE NoKeys

\* toSave := &Config{..., APIKeys: c.APIKeys} and os.WriteFile
Written(keys) == [exists |-> TRUE, keys |-> keys]

\* func Load() (*Config, error)
Load ==
    /\ \E io \in IOOutcomes :
         IF io = "fail"
         THEN /\ configErr' = "failed to read config file"
              /\ UNCHANGED cfg
         ELSE /\ cfg' = [loaded |-> TRUE, keys |-> applyEnvOverrides(Unmarshal(file))]
              /\ configErr' = ""
    /\ UNCHANGED <<env, file, callVars, calls, registryVars, sanitizeVars, uiVars>>

\* func (c *Config) Save() error
Save ==
    /\ cfg.loaded
    /\ \E io \in IOOutcomes :
         IF io = "fail"
         THEN /\ configErr' = "failed to write config file"
              /\ UNCHANGED file
         ELSE /\ file' = Written(cfg.keys)
              /\ configErr' = ""
    /\ UNCHANGED <<env, cfg, callVars, calls, registryVars, sanitizeVars, uiVars>>

\* func (c *Config) SetAPIKey(provider, key string, persist bool) error
SetAPIKey(provider, key, persist) ==
    /\ cfg.loaded
    /\ IF provider \notin KeyProviders
       THEN /\ configErr' = "unknown provider"
            /\ UNCHANGED <<cfg, file>>
       ELSE LET keys == [cfg.keys EXCEPT ![provider] = key]
            IN  /\ cfg' = [cfg EXCEPT !.keys = keys]
                /\ IF persist
                   THEN \E io \in IOOutcomes :
                          IF io = "fail"
                          THEN /\ configErr' = "failed to write config file"
                               /\ UNCHANGED file
                          ELSE /\ file' = Written(keys)
                               /\ configErr' = ""
                   ELSE /\ configErr' = ""
                        /\ UNCHANGED file
    /\ UNCHANGED <<env, callVars, calls, registryVars, sanitizeVars, uiVars>>

InitConfig ==
    /\ Uncalled
    /\ calls = NoCalls
    /\ NewRegistry
    /\ env \in Environments
    /\ file \in Files
    /\ cfg = NoConfig
    /\ configErr = ""
    /\ SanitizeUnused
    /\ UIUnused

NextConfig ==
    \/ Load
    \/ Save
    \/ \E provider \in SetProviders, a \in SetArguments :
         SetAPIKey(provider, a.key, a.persist)

SpecConfig == InitConfig /\ [][NextConfig]_vars

\* the keys the environment supplies
EnvKeys == { env[p] : p \in KeyProviders } \ {""}
\* the keys stored in the config file
FileKeys == { file.keys[p] : p \in KeyProviders } \ {""}

(* C30: an API key that came from an environment variable is never written *)
(* to the config file, after any sequence of Load, SetAPIKey (with or      *)
(* without persist) and Save.                                              *)
C30_EnvKeyNeverOnDisk == FileKeys \cap EnvKeys = {}

\* without a key in the environment the file holds only keys that were in it
\* or that SetAPIKey was given
C30_FileKeysWithoutEnv ==
    EnvKeys = {} => FileKeys \subseteq {"file-openai"} \cup SetKeys

----------------------------------------------------------------------------
(* Send and Stream calls side by side on one adapter value.  The adapter's *)
(* fields are the variables adapter, apiKey, enableSearch, enableThought;  *)
(* calls[i] holds the arguments and the local variables of call i.  Each   *)
(* step is one call running from one suspension point (the HTTP exchange,  *)
(* a scanner read) to its next.                                            *)

\* how many lines each of the calls reads
MaxPairLines == 2

CallIds == {1, 2}

\* the request of call i: the calls differ in model and messages
PairRequest(i) ==
    IF i = 1
    THEN [model |-> "gemini-2.5-flash", messages |-> << Message("user", "A") >>,
          maxTokens |-> 0, temp |-> "finite"]
    ELSE [model |-> "gemini-2.0-flash",
          messages |-> << Message("system", "A"), Message("assistant", "B") >>,
          maxTokens |-> 100, temp |-> "finite"]

\* the lines the servers send to the calls
PairLines(a) ==
    CASE a = "openai" ->
           { OpenAILine("data: ", "{json}", <<"a">>),
             OpenAILine("data: ", "{json}", <<"b">>),
             OpenAILine("data: ", "[DONE]", <<>>) }
      [] a = "anthropic" ->
           { AnthropicLine("data: ", "{json}", "content_block_delta", Delta("text_delta", "a")),
             AnthropicLine("data: ", "{json}", "content_block_delta", Delta("text_delta", "b")),
             AnthropicLine("data: ", "{json}", "message_stop", NoDelta) }
      [] a = "gemini" ->
           { GeminiLine("data: ", "{json}", << Candidate(<< Thought("t") >>, <<>>) >>),
             GeminiLine("data: ", "{json}", << Candidate(<< Answer("a") >>, <<>>) >>),
             GeminiLine("data: ", "{json}", << Candidate(<<>>, << Web("T1", "u1") >>) >>) }

\* the bodies of the error responses
ErrorBodies == { Body("bad", FALSE, "", <<>>), Body("json", TRUE, "boom", <<>>) }

\* the bodies the servers send to the Send calls
PairBodies(a) ==
    ErrorBodies
    \cup (CASE a = "openai" -> { Body("json", FALSE, "", <<"a">>) }
           [] a = "anthropic" -> { Body("json", FALSE, "", << Block("text", "a") >>) }
           [] a = "gemini" ->
                { Body("json", FALSE, "",
                       << Candidate(<< Thought("t"), Answer("a") >>,
                                    << Web("T1", "u1") >>) >>) })

\* the arguments and the locals of a call that has not started
NewCall(o, r) ==
    [op |-> o, req |-> r, canceled |-> FALSE, pc |-> "idle", result |-> Running,
     wireReq |-> NoWire, status |-> 0, respBody |-> NoBody,
     response |-> EmptyResponse, fragments |-> <<>>, inThinking |-> FALSE,
     groundingChunks |-> <<>>, wire |-> <<>>, processed |-> 0]

\* mutant: the thinking flag and the citation buffer are kept in the adapter,
\* where the first call's values are found by every call
LocalsOfAdapter(i) ==
    [out |-> calls[i].fragments, inThinking |-> calls[1].inThinking,
     chunks |-> calls[1].groundingChunks, brk |-> FALSE]

\* var inThinking bool; var groundingChunks []struct{...}: declared in the
\* body of Stream, one of each per call
Locals(i) ==
    [out |-> calls[i].fragments, inThinking |-> calls[i].inThinking,
     chunks |-> calls[i].groundingChunks, brk |-> FALSE]

\* the struct call i marshals: built from its own req and the adapter's fields
WireOf(i) ==
    WireRequest(adapter, calls[i].op, calls[i].req, enableSearch, enableThought)

\* one call moves, the adapter and the other calls stay
Moves(i, c) ==
    /\ calls' = [calls EXCEPT ![i] = c]
    /\ UNCHANGED <<callVars, registryVars, configVars, sanitizeVars, uiVars>>

\* the cancel function of call i's context
PairCancel(i) ==
    /\ ~calls[i].canceled
    /\ calls[i].pc # "done"
    /\ Moves(i, [calls[i] EXCEPT !.canceled = TRUE])

\* Send of call i
PairSend(i) ==
    /\ calls[i].pc = "idle"
    /\ calls[i].op = "send"
    /\ \E net \in NetOutcomes, code \in Statuses, body \in PairBodies(adapter) :
         LET c == calls[i]
             cut == ~c.canceled /\ net \in {"cancelInDo", "cancelInRead"}
             early(err) == [c EXCEPT !.result = err, !.pc = "done"]
             after(err, st, b, resp) ==
                 [c EXCEPT !.result = err, !.pc = "done", !.wireReq = WireOf(i),
                           !.status = st, !.respBody = b, !.response = resp,
                           !.canceled = c.canceled \/ cut]
         IN  IF NoAPIKey THEN Moves(i, early(ErrNoAPIKey))
             ELSE IF MarshalFails(adapter, c.req)
                  THEN Moves(i, early(Errorf("failed to marshal request: ",
                                             "json: unsupported value")))
             ELSE IF CreateFails(adapter, c.req)
                  THEN Moves(i, early(Errorf("failed to create request: ",
                                             "parse: invalid URL")))
             ELSE IF c.canceled \/ net \in {"error", "cancelInDo"}
                  THEN IF c.canceled \/ net = "cancelInDo"
                       THEN Moves(i, after(ErrContextCanceled, 0, NoBody, EmptyResponse))
                       ELSE Moves(i, after(Errorf("request failed: ", "dial"), 0,
                                           NoBody, EmptyResponse))
             ELSE IF ReadFails(net)
                  THEN Moves(i, after(Errorf("failed to read response: ", "read"), code,
                                      NoBody, EmptyResponse))
             ELSE IF code = 429
                  THEN Moves(i, after(ErrRateLimited, code, NoBody, EmptyResponse))
             ELSE IF code # 200
                  THEN Moves(i, after(APIError(adapter, code, body), code, body,
                                      EmptyResponse))
             ELSE IF ~Unmarshals(body)
                  THEN Moves(i, after(Errorf("failed to parse response: ", "json"), code,
                                      body, EmptyResponse))
             ELSE IF NoChoices(body)
                  THEN Moves(i, after(ErrInvalidResponse, code, body, EmptyResponse))
             ELSE Moves(i, after(Nil, code, body, ResponseOf(adapter, body)))

\* Stream of call i up to bufio.NewScanner
PairStream(i) ==
    /\ calls[i].pc = "idle"
    /\ calls[i].op = "stream"
    /\ \E net \in NetOutcomes, code \in Statuses, body \in ErrorBodies :
         LET c == calls[i]
             cut == ~c.canceled /\ net \in {"cancelInDo", "cancelInRead"}
             early(err) == [c EXCEPT !.result = err, !.pc = "done"]
             after(err, st) == [c EXCEPT !.result = err, !.pc = "done",
                                         !.wireReq = WireOf(i), !.status = st,
                                         !.canceled = c.canceled \/ cut]
         IN  IF NoAPIKey THEN Moves(i, early(ErrNoAPIKey))
             ELSE IF MarshalFails(adapter, c.req)
                  THEN Moves(i, early(Errorf("failed to marshal request: ",
                                             "json: unsupported value")))
             ELSE IF CreateFails(adapter, c.req)
                  THEN Moves(i, early(Errorf("failed to create request: ",
                                             "parse: invalid URL")))
             ELSE IF c.canceled \/ net \in {"error", "cancelInDo"}
                  THEN IF c.canceled \/ net = "cancelInDo"
                       THEN Moves(i, after(ErrContextCanceled, 0))
                       ELSE Moves(i, after(Errorf("request failed: ", "dial"), 0))
             ELSE IF code = 429 THEN Moves(i, after(ErrRateLimited, code))
             ELSE IF code # 200
                  THEN Moves(i, after(APIError(adapter, code, body), code))
             ELSE /\ net = "ok"
                  /\ Moves(i, [c EXCEPT !.pc = "receiving", !.wireReq = WireOf(i),
                                        !.status = code])

\* scanner.Scan() of call i returns true
PairScanLine(i) ==
    /\ calls[i].pc = "receiving"
    /\ Len(calls[i].wire) < MaxPairLines
    /\ \E line \in PairLines(adapter) :
         LET c == [calls[i] EXCEPT !.wire = Append(@, line)]
             n == Len(c.wire)
             st == Step(adapter, line, Locals(i), n)
         IN  IF c.canceled
             THEN Moves(i, [c EXCEPT !.result = ErrContextCanceled, !.pc = "done"])
             ELSE IF st.brk
             THEN Moves(i, [c EXCEPT !.processed = @ + 1,
                                     !.inThinking = st.inThinking,
                                     !.groundingChunks = st.chunks,
                                     !.fragments = AfterLoop(adapter, st, n + 1),
                                     !.result = StreamReturn(""), !.pc = "done"])
             ELSE Moves(i, [c EXCEPT !.processed = @ + 1,
                                     !.inThinking = st.inThinking,
                                     !.groundingChunks = st.chunks,
                                     !.fragments = st.out])

\* scanner.Scan() of call i returns false at the end of the body
PairScanEOF(i) ==
    /\ calls[i].pc = "receiving"
    /\ Moves(i, [calls[i] EXCEPT
                   !.fragments = AfterLoop(adapter, Locals(i), Len(calls[i].wire) + 1),
                   !.result = StreamReturn(""), !.pc = "done"])

\* scanner.Scan() of call i returns false on a failed read
PairScanError(i) ==
    /\ calls[i].pc = "receiving"
    /\ Moves(i, [calls[i] EXCEPT
                   !.fragments = AfterLoop(adapter, Locals(i), Len(calls[i].wire) + 1),
                   !.result = StreamReturn(IF calls[i].canceled THEN "context canceled"
                                                                ELSE "unexpected EOF"),
                   !.pc = "done"])

\* one adapter value, constructed with or without a key and, for Gemini,
\* with either setting of its options; the calls are made on it
InitPair ==
    /\ adapter \in Adapters
    /\ op = "stream"
    /\ apiKey \in {"", "sk-test"}
    /\ enableSearch \in BOOLEAN
    /\ enableThought \in BOOLEAN
    /\ adapter # "gemini" => ~enableSearch /\ ~enableThought
    /\ req = CHOOSE r \in Requests : TRUE
    /\ NotStarted
    /\ \E ops \in [CallIds -> Ops] :
         calls = [i \in CallIds |-> NewCall(ops[i], PairRequest(i))]
    /\ NewRegistry
    /\ ConfigUnused
    /\ SanitizeUnused
    /\ UIUnused

NextPair ==
    \E i \in CallIds :
        \/ PairCancel(i)
        \/ PairSend(i)
        \/ PairStream(i)
        \/ PairScanLine(i)
        \/ PairScanEOF(i)
        \/ PairScanError(i)

SpecPair == InitPair /\ [][NextPair]_vars

\* the parser state of a Stream that has not read a line
Fresh == [out |-> <<>>, inThinking |-> FALSE, chunks |-> <<>>, brk |-> FALSE]

\* what a call running alone has in its parser state after the lines call i
\* has processed
Alone(i) == Replay(adapter, SubSeq(calls[i].wire, 1, calls[i].processed), Fresh)

(* C29: Send and Stream calls running concurrently on the same adapter     *)
(* value, with no change of the credential in between, share no mutable    *)
(* state: a step of one call leaves the arguments and locals of every      *)
(* other call as they are, the wire request of each call is the            *)
(* translation of its own request, the response of a Send is the content   *)
(* of the body it received, and in every interleaving the fragments, the   *)
(* thinking flag and the citation buffer of each Stream are those of a     *)
(* call that reads the same lines alone.                                   *)
C29_CallsShareNothing ==
    /\ [][\A i, j \in CallIds : i # j /\ calls'[i] # calls[i] => calls'[j] = calls[j]]_vars
    /\ [](calls # NoCalls =>
          \A i \in CallIds :
            LET c == calls[i]
            IN  /\ c.wireReq # NoWire => c.wireReq = WireOf(i)
                /\ c.pc = "receiving" =>
                     /\ c.wireReq = WireOf(i)
                     /\ Texts(c.fragments) = Texts(Alone(i).out)
                     /\ c.inThinking = Alone(i).inThinking
                     /\ Links(c.groundingChunks) = Links(Alone(i).chunks)
                /\ (c.op = "send" /\ c.pc = "done") =>
                     /\ c.fragments = <<>>
                     /\ c.response = IF c.result = Nil
                                     THEN ResponseOf(adapter, c.respBody)
                                     ELSE EmptyResponse
                /\ (c.op = "stream" /\ c.pc = "done" /\ c.status = 200) =>
                     IF c.result = ErrContextCanceled
                     THEN Texts(c.fragments) = Texts(Alone(i).out)
                     ELSE Texts(c.fragments) = Texts(AfterLoop(adapter, Alone(i), 0)))

\* two Gemini calls with different requests: the first is inside a thinking
\* span it opened after the second, which read a citation and an answer and
\* never opened a span, had started reading
C29_Witness ==
    /\ calls # NoCalls
    /\ adapter = "gemini"
    /\ calls[1].req # calls[2].req
    /\ calls[1].wireReq # calls[2].wireReq
    /\ calls[1].pc = "receiving" /\ calls[1].inThinking /\ calls[1].processed = 1
    /\ calls[2].pc = "receiving" /\ ~calls[2].inThinking /\ calls[2].processed = 2
    /\ Len(calls[2].groundingChunks) = 1 /\ calls[1].groundingChunks = <<>>
    /\ Len(calls[2].fragments) = 1

----------------------------------------------------------------------------
\* the keys a fresh Load returns from the file as it is now
FreshLoad == applyEnvOverrides(Unmarshal(file))

(* C31: a key set with SetAPIKey(provider, key, persist=false) is kept in  *)
(* memory only: whatever operations follow that do not set that provider's *)
(* key with persist=true, a fresh Load with no environment variable set    *)
(* does not return it.                                                     *)
C31_MemoryOnlyKey ==
    EnvKeys = {} => \A p \in KeyProviders : FreshLoad[p] # "memory-key"

\* a key set with persist=true and written without error is what a fresh
\* Load returns: every write of the file stores the keys held in memory
C31_PersistedKeyLoaded ==
    [][file' # file => (file'.exists /\ file'.keys = cfg'.keys)]_vars

----------------------------------------------------------------------------
\* scanner.Scan() has returned a line while ctx.Done() was closed
LineReadCanceled == pc = "receiving" /\ canceled /\ Len(wire') = Len(wire) + 1

(* C34: in the stream loop of every adapter the cancellation signal is     *)
(* checked after a line has been read and before it is processed: when the *)
(* signal is set at that point the line is not parsed and forwards         *)
(* nothing, a terminal marker in it is not honoured, no thinking close     *)
(* marker and no Sources block is flushed, reading stops and the call      *)
(* returns ErrContextCanceled.                                             *)
C34_CancelCheckedBeforeLine ==
    [][LineReadCanceled =>
          /\ fragments' = fragments
          /\ inThinking' = inThinking
          /\ groundingChunks' = groundingChunks
          /\ processed' = processed
          /\ terminal' = FALSE
          /\ pc' = "done"
          /\ result' = ErrContextCanceled]_vars

\* a Gemini call canceled inside an open thinking span with a citation
\* buffered: the line read next is the third and nothing is flushed
C34_Witness ==
    /\ adapter = "gemini" /\ Returned /\ result = ErrContextCanceled
    /\ Len(wire) = 3 /\ processed = 2
    /\ inThinking /\ Len(groundingChunks) > 0
    /\ Kinds({"close", "header", "source"}) = {}

----------------------------------------------------------------------------
\* the state of a Stream call: Connected is the call between the response
\* headers and the first read of the body
StreamState ==
    IF pc = "idle" THEN "Idle"
    ELSE IF pc = "receiving"
         THEN IF wire = <<>> THEN "Connected" ELSE "Receiving"
    ELSE IF result = Nil THEN "Completed"
    ELSE IF result = ErrContextCanceled THEN "Canceled"
    ELSE "Failed"

StateRank(s) ==
    CASE s = "Idle" -> 0
      [] s = "Connected" -> 1
      [] s = "Receiving" -> 2
      [] OTHER -> 3

Is2xx(code) == 200 <= code /\ code <= 299

(* C35: a Stream call of every adapter moves only forward through Idle,    *)
(* Connected and Receiving and ends in exactly one of Completed, Failed or *)
(* Canceled, which it never leaves; fragments are forwarded only after the *)
(* headers of a 2xx response were received, and a 429 or another non-2xx   *)
(* status takes the call from Idle directly to Failed with no fragment     *)
(* forwarded.                                                              *)
C35_StreamStates ==
    /\ [][op = "stream" =>
            /\ StateRank(StreamState') >= StateRank(StreamState)
            /\ StateRank(StreamState) = 3 => StreamState' = StreamState
            /\ (status' # status /\ ~Is2xx(status')) =>
                  /\ StreamState = "Idle"
                  /\ StreamState' \in {"Failed", "Canceled"}
                  /\ status' # 0 => StreamState' = "Failed"]_vars
    /\ [](op = "stream" =>
            /\ fragments # <<>> => Is2xx(status)
            /\ wire # <<>> => Is2xx(status)
            /\ (Returned /\ status # 0 /\ ~Is2xx(status)) =>
                  /\ StreamState = "Failed"
                  /\ fragments = <<>> /\ wire = <<>> /\ processed = 0)

\* a call that went through Connected and Receiving and completed, with
\* fragments forwarded after a 200 response
C35_Witness ==
    /\ op = "stream" /\ StreamState = "Completed"
    /\ Len(wire) = 3 /\ Len(fragments) >= 2 /\ status = 200

\* a status that is not 2xx has failed the call before any line was read
C35_WitnessFailed ==
    /\ op = "stream" /\ StreamState = "Failed" /\ status = 400 /\ wire = <<>>

----------------------------------------------------------------------------
\* the adapters whose stream has a terminal marker
MarkerAdapters == {"openai", "anthropic"}

(* C36: when the body of an OpenAI or Anthropic stream reaches a clean end *)
(* without the terminal marker having arrived, the call returns nil as it  *)
(* does after the marker: nothing is added to or taken from the fragments  *)
(* forwarded so far, and with or without the marker a successful call has  *)
(* forwarded exactly what the lines it processed produce.                  *)
C36_EndWithoutMarker ==
    /\ [][(adapter \in MarkerAdapters /\ ScanEOF) =>
             /\ result' = Nil
             /\ pc' = "done"
             /\ fragments' = fragments
             /\ terminal' = FALSE]_vars
    /\ []((adapter \in MarkerAdapters /\ op = "stream" /\ Returned /\ result = Nil) =>
             Texts(fragments) = Texts(Replay(adapter, ProcessedLines, Fresh).out))

\* a call that forwarded two fragments and succeeded at the end of the body,
\* no terminal marker among its lines
C36_Witness ==
    /\ adapter \in MarkerAdapters /\ op = "stream" /\ Returned /\ result = Nil
    /\ ~terminal /\ ~canceled
    /\ Len(fragments) = 2 /\ Len(wire) = 3

----------------------------------------------------------------------------
\* the thinking markers among the fragments, in order
Markers == SelectSeq(fragments, LAMBDA f : f.kind \in {"open", "close"})
\* open, close, open, close, ...
Alternate ==
    \A i \in 1..Len(Markers) :
        Markers[i].kind = IF i % 2 = 1 THEN "open" ELSE "close"

(* C37 as stated: every Gemini stream call that returns, whatever its      *)
(* result, has forwarded as many close markers as open markers, and they   *)
(* alternate open, close, open, close.                                     *)
C37_BalancedAtEveryReturn ==
    (adapter = "gemini" /\ op = "stream" /\ Returned) =>
        (Alternate /\ Len(Markers) % 2 = 0)

(* C37 amended: in a Gemini stream the thinking markers alternate open,    *)
(* close, open, close at every moment; a call that returns success or a    *)
(* stream failure has forwarded as many close markers as open markers; a   *)
(* call that returns Canceled from inside the read loop has forwarded one  *)
(* open marker more exactly when it was inside a thinking span.            *)
C37_BalancedUnlessCanceled ==
    (adapter = "gemini" /\ op = "stream") =>
        /\ Alternate
        /\ Returned =>
             Len(Markers) % 2 = (IF result = ErrContextCanceled /\ inThinking
                                 THEN 1 ELSE 0)

\* a second span was opened and closed by the flush after a read failure
C37_Witness ==
    /\ adapter = "gemini" /\ op = "stream" /\ Returned
    /\ result.kind = "stream error: "
    /\ Len(Markers) = 4 /\ inThinking

----------------------------------------------------------------------------
(* Sanitize.  A string is a sequence of bytes; the bytes are taken from    *)
(* the classes the three patterns tell apart: ESC (0x1b), "[", "]", a      *)
(* parameter byte ("0" for [0-9;]), a letter ("m" for [a-zA-Z]), BEL       *)
(* (0x07), the backslash and the newline.                                  *)

\* the longest input
MaxInput == 4
\* MaxOutputSize, 1024 * 1024 in the source, scaled down so that inputs up
\* to MaxInput exceed it
MaxOutputSize == 2

Chars == {"ESC", "[", "]", "0", "m", "BEL", "\\", "LF"}
Params == {"0"}
Letters == {"m"}
\* [\x00-\x08\x0b\x0c\x0e-\x1f\x7f]
Controls == {"ESC", "BEL"}
\* "\n... [output truncated]": a newline and text without ESC or control bytes
Truncated == <<"LF", "... [output truncated]">>

\* the first position from k on that is past the end of s or holds a byte
\* that is not in S (InSet) or is in S (not InSet)
RunEnd(s, k, S, InSet) ==
    CHOOSE j \in k..(Len(s) + 1) :
        /\ j = Len(s) + 1 \/ ((s[j] \in S) # InSet)
        /\ \A l \in k..(j - 1) : (s[l] \in S) = InSet

\* ansiEscapePattern matched at position i: the position of the last byte of
\* the match, 0 when there is none
\*   \x1b(?:\[[0-9;]*[a-zA-Z]|\][^\x07\x1b]*(?:\x07|\x1b\\)?|[a-zA-Z])
ansiEscapeEnd(s, i) ==
    IF s[i] # "ESC" \/ i = Len(s) THEN 0
    ELSE IF s[i + 1] = "["
         THEN LET j == RunEnd(s, i + 2, Params, TRUE)
              IN  IF j <= Len(s) /\ s[j] \in Letters THEN j ELSE 0
    ELSE IF s[i + 1] = "]"
         THEN LET j == RunEnd(s, i + 2, {"BEL", "ESC"}, FALSE)
              IN  IF j <= Len(s) /\ s[j] = "BEL" THEN j
                  ELSE IF j < Len(s) /\ s[j] = "ESC" /\ s[j + 1] = "\\" THEN j + 1
                  ELSE j - 1
    ELSE IF s[i + 1] \in Letters THEN i + 1
    ELSE 0

\* ansiEscapePattern.ReplaceAllString(s, ""), from position i on
RECURSIVE StripANSIFrom(_, _)
StripANSIFrom(s, i) ==
    IF i > Len(s) THEN <<>>
    ELSE IF ansiEscapeEnd(s, i) = 0 THEN << s[i] >> \o StripANSIFrom(s, i + 1)
    ELSE StripANSIFrom(s, ansiEscapeEnd(s, i) + 1)

StripANSI(s) == StripANSIFrom(s, 1)

\* mutant: control characters are left in
StripControlCharsNone(s) == s

\* controlCharPattern.ReplaceAllString(s, "")
StripControlChars(s) == SelectSeq(s, LAMBDA c : c \notin Controls)

\* multipleNewlinesPattern.ReplaceAllString(s, "\n\n"), from position i on
RECURSIVE NormalizeNewlinesFrom(_, _)
NormalizeNewlinesFrom(s, i) ==
    IF i > Len(s) THEN <<>>
    ELSE IF s[i] # "LF" THEN << s[i] >> \o NormalizeNewlinesFrom(s, i + 1)
    ELSE LET j == RunEnd(s, i, {"LF"}, TRUE)
         IN  (IF j - i >= 3 THEN <<"LF", "LF">> ELSE SubSeq(s, i, j - 1))
             \o NormalizeNewlinesFrom(s, j)

\* if len(s) > MaxOutputSize { s = s[:MaxOutputSize] + "\n... [output truncated]" }
Limit(s) ==
    IF Len(s) > MaxOutputSize THEN SubSeq(s, 1, MaxOutputSize) \o Truncated ELSE s

\* func Sanitize(s string) string
Sanitize(s) == NormalizeNewlinesFrom(Limit(StripControlChars(StripANSI(s))), 1)

\* func IsSafeString(s string) bool
IsSafeString(s) ==
    /\ ~\E i \in 1..Len(s) : ansiEscapeEnd(s, i) # 0
    /\ ~\E i \in 1..Len(s) : s[i] \in Controls

InitSanitize ==
    /\ Uncalled
    /\ calls = NoCalls
    /\ NewRegistry
    /\ ConfigUnused
    /\ UIUnused
    /\ input \in SeqsUpTo(Chars, MaxInput)
    /\ output = NoOutput

\* one call of Sanitize on the input
SanitizeCall ==
    /\ ~output.done
    /\ output' = [done |-> TRUE, text |-> Sanitize(input)]
    /\ UNCHANGED <<input, callVars, calls, registryVars, configVars, uiVars>>

NextSanitize == SanitizeCall

SpecSanitize == InitSanitize /\ [][NextSanitize]_vars

(* C33: for every input the output of Sanitize contains no ANSI escape     *)
(* sequence and none of the control characters the control pattern lists   *)
(* (tab, newline and carriage return are not among them), that is          *)
(* IsSafeString(Sanitize(s)) is true, also when the input is cut at        *)
(* MaxOutputSize.                                                          *)
C33_SanitizeIsSafe ==
    output.done =>
        /\ IsSafeString(output.text)
        /\ \A i \in 1..Len(output.text) : output.text[i] \notin {"ESC", "BEL"}

\* an input that is not safe, with an escape sequence the pattern does not
\* match, is cut at MaxOutputSize
C33_Witness ==
    /\ output.done
    /\ ~IsSafeString(input)
    /\ \E i \in 1..Len(input) : input[i] = "ESC" /\ ansiEscapeEnd(input, i) = 0
    /\ Len(output.text) = MaxOutputSize + Len(Truncated)
    /\ SubSeq(output.text, MaxOutputSize + 1, Len(output.text)) = Truncated

----------------------------------------------------------------------------
(* The UI as the caller of the provider layer.  Update runs on one         *)
(* goroutine; every tea.Cmd it returns runs on a goroutine of its own and  *)
(* hands its result message back to Update.  A command is followed from    *)
(* the moment Update returns it to the moment Update has handled its       *)
(* message.                                                                *)

\* the commands one run of the program returns
MaxCommands == 2

Views == {"chat", "help"}

\* m.streamContent: sendToAI resets it, the onDelta callback of
\* streamResponse is empty and nothing sends streamDeltaMsg, so it is empty
\* whenever Update reads it
streamContent == <<>>

NoMsg == [type |-> "none", err |-> FALSE]

\* a command as Update returns it
\*   kind: "chat" (streamResponse) or "summarize" (generateSummary, then
\*         executeSummarize)
\*   pc:   "prompt"    generateSummary has not returned summarizeRequestMsg
\*         "scheduled" the function has not started
\*         "stream"    inside prov.Stream
\*         "send"      inside prov.Send
\*         "returned"  the message is on its way to Update
\*         "handled"   Update has handled the message
\*   canceled: the cancel function of the command's context was invoked
\*   requests: the provider calls made, one HTTP request each
NewCommand(kind) ==
    [kind |-> kind, pc |-> IF kind = "chat" THEN "scheduled" ELSE "prompt",
     canceled |-> FALSE, requests |-> 0, msg |-> NoMsg]

\* a send or stream call of command i on the adapter is in flight
InFlight(i) == commands[i].pc \in {"stream", "send"}

\* SupportsStreaming() of the three adapters
SupportsStreaming(p) == TRUE

InitUI ==
    /\ Uncalled
    /\ calls = NoCalls
    /\ NewRegistry
    /\ ConfigUnused
    /\ SanitizeUnused
    /\ \E p \in Adapters : NewModel(p)

\* ctrl+enter in the chat view with a message typed: sendMessage, sendToAI
\* with a session, a provider and a key
SendMessage ==
    /\ ~quit
    /\ currentView = "chat"
    /\ Len(commands) < MaxCommands
    /\ streaming' = TRUE
    /\ commands' = Append(commands, NewCommand("chat"))
    /\ UNCHANGED <<streamCancel, currentView, geminiThinking, appended, quit,
                   currentProvider>>
    /\ UNCHANGED <<callVars, calls, registryVars, configVars, sanitizeVars>>

\* ctrl+enter with "/summarize" typed: cmdSummarize returns generateSummary
CmdSummarize ==
    /\ ~quit
    /\ currentView = "chat"
    /\ Len(commands) < MaxCommands
    /\ commands' = Append(commands, NewCommand("summarize"))
    /\ UNCHANGED <<streaming, streamCancel, currentView, geminiThinking,
                   appended, quit, currentProvider>>
    /\ UNCHANGED <<callVars, calls, registryVars, configVars, sanitizeVars>>

\* ctrl+enter with "/thinking" typed: cmdThinking toggles the flag and calls
\* SetThinkingEnabled on the adapter
CmdThinking ==
    /\ ~quit
    /\ currentView = "chat"
    /\ currentProvider = "gemini"
    /\ geminiThinking' = ~geminiThinking
    /\ UNCHANGED <<streaming, streamCancel, commands, currentView, appended,
                   quit, currentProvider>>
    /\ UNCHANGED <<callVars, calls, registryVars, configVars, sanitizeVars>>

\* a key that opens another view
OpenView ==
    /\ ~quit
    /\ currentView = "chat"
    /\ currentView' = "help"
    /\ UNCHANGED <<streaming, streamCancel, commands, geminiThinking, appended,
                   quit, currentProvider>>
    /\ UNCHANGED <<callVars, calls, registryVars, configVars, sanitizeVars>>

\* func (m *Model) cancelStream()
cancelStream ==
    /\ streaming' = FALSE
    /\ streamCancel' = 0
    /\ commands' = IF streamCancel # 0
                   THEN [commands EXCEPT ![streamCancel].canceled = TRUE]
                   ELSE commands

\* Update, case "ctrl+c"
CtrlC ==
    /\ ~quit
    /\ IF streaming
       THEN cancelStream /\ UNCHANGED quit
       ELSE quit' = TRUE /\ UNCHANGED <<streaming, streamCancel, commands>>
    /\ UNCHANGED <<currentView, geminiThinking, appended, currentProvider>>
    /\ UNCHANGED <<callVars, calls, registryVars, configVars, sanitizeVars>>

\* Update, case "esc"; in the chat view with nothing streaming the key goes
\* on to the text area
Esc ==
    /\ ~quit
    /\ IF currentView # "chat"
       THEN currentView' = "chat" /\ UNCHANGED <<streaming, streamCancel, commands>>
       ELSE IF streaming
       THEN cancelStream /\ UNCHANGED currentView
       ELSE UNCHANGED <<streaming, streamCancel, commands, currentView>>
    /\ UNCHANGED <<geminiThinking, appended, quit, currentProvider>>
    /\ UNCHANGED <<callVars, calls, registryVars, configVars, sanitizeVars>>

\* the command function starts.  streamResponse: m.streamCancel = cancel,
\* registry.Get, SetAPIKey (and the two Gemini setters) on the adapter, then
\* prov.Stream if the adapter streams, else prov.Send.  executeSummarize:
\* registry.Get, SetAPIKey, prov.Send.
Start(i) ==
    /\ ~quit
    /\ i \in 1..Len(commands)
    /\ commands[i].pc = "scheduled"
    /\ commands' =
         [commands EXCEPT
            ![i].pc = IF commands[i].kind = "chat" /\ SupportsStreaming(currentProvider)
                      THEN "stream" ELSE "send",
            ![i].requests = @ + 1]
    /\ streamCancel' = IF commands[i].kind = "chat" THEN i ELSE streamCancel
    /\ UNCHANGED <<streaming, currentView, geminiThinking, appended, quit,
                   currentProvider>>
    /\ UNCHANGED <<callVars, calls, registryVars, configVars, sanitizeVars>>

\* prov.Stream returns in streamResponse: an error becomes
\* streamCompleteMsg{err}; without one the function goes on to prov.Send
StreamReturns(i, err) ==
    /\ ~quit
    /\ i \in 1..Len(commands)
    /\ commands[i].pc = "stream"
    /\ commands' =
         IF err
         THEN [commands EXCEPT ![i].pc = "returned",
                               ![i].msg = [type |-> "streamComplete", err |-> TRUE]]
         ELSE [commands EXCEPT ![i].pc = "send", ![i].requests = @ + 1]
    /\ UNCHANGED <<streaming, streamCancel, currentView, geminiThinking,
                   appended, quit, currentProvider>>
    /\ UNCHANGED <<callVars, calls, registryVars, configVars, sanitizeVars>>

\* prov.Send returns.  streamResponse: streamCompleteMsg{err} or
\* streamContentMsg(resp.Content); executeSummarize: summarizeCompleteMsg
SendReturns(i, err) ==
    /\ ~quit
    /\ i \in 1..Len(commands)
    /\ commands[i].pc = "send"
    /\ commands' =
         [commands EXCEPT
            ![i].pc = "returned",
            ![i].msg = IF commands[i].kind = "summarize"
                       THEN [type |-> "summarizeComplete", err |-> err]
                       ELSE IF err THEN [type |-> "streamComplete", err |-> TRUE]
                       ELSE [type |-> "streamContent", err |-> FALSE]]
    /\ UNCHANGED <<streaming, streamCancel, currentView, geminiThinking,
                   appended, quit, currentProvider>>
    /\ UNCHANGED <<callVars, calls, registryVars, configVars, sanitizeVars>>

\* generateSummary returns summarizeRequestMsg and Update, case
\* summarizeRequestMsg, returns executeSummarize
SummarizeRequest(i) ==
    /\ ~quit
    /\ i \in 1..Len(commands)
    /\ commands[i].pc = "prompt"
    /\ commands' = [commands EXCEPT ![i].pc = "scheduled"]
    /\ UNCHANGED <<streaming, streamCancel, currentView, geminiThinking,
                   appended, quit, currentProvider>>
    /\ UNCHANGED <<callVars, calls, registryVars, configVars, sanitizeVars>>

\* Update receives the message of command i.  case streamCompleteMsg clears
\* the flag and, without an error, appends the sanitized streamContent when
\* it is not empty; summarizeCompleteMsg does not touch the flag; no case
\* handles streamContentMsg.
Deliver(i) ==
    /\ ~quit
    /\ i \in 1..Len(commands)
    /\ commands[i].pc = "returned"
    /\ commands' = [commands EXCEPT ![i].pc = "handled"]
    /\ streaming' = IF commands[i].msg.type = "streamComplete" THEN FALSE ELSE streaming
    /\ appended' = IF /\ commands[i].msg.type = "streamComplete"
                      /\ ~commands[i].msg.err
                      /\ streamContent # <<>>
                   THEN appended + 1 ELSE appended
    /\ UNCHANGED <<streamCancel, currentView, geminiThinking, quit, currentProvider>>
    /\ UNCHANGED <<callVars, calls, registryVars, configVars, sanitizeVars>>

NextUI ==
    \/ SendMessage
    \/ CmdSummarize
    \/ CmdThinking
    \/ OpenView
    \/ CtrlC
    \/ Esc
    \/ \E i \in 1..MaxCommands : Start(i)
    \/ \E i \in 1..MaxCommands, err \in BOOLEAN : StreamReturns(i, err)
    \/ \E i \in 1..MaxCommands, err \in BOOLEAN : SendReturns(i, err)
    \/ \E i \in 1..MaxCommands : SummarizeRequest(i)
    \/ \E i \in 1..MaxCommands : Deliver(i)

SpecUI == InitUI /\ [][NextUI]_vars

\* every started goroutine runs on and every message it returns reaches
\* Update; the user's keys are under no obligation
SpecUIFair ==
    /\ InitUI
    /\ [][NextUI]_vars
    /\ WF_vars(\E i \in 1..MaxCommands : Start(i))
    /\ WF_vars(\E i \in 1..MaxCommands, err \in BOOLEAN : StreamReturns(i, err))
    /\ WF_vars(\E i \in 1..MaxCommands, err \in BOOLEAN : SendReturns(i, err))
    /\ WF_vars(\E i \in 1..MaxCommands : SummarizeRequest(i))
    /\ WF_vars(\E i \in 1..MaxCommands : Deliver(i))

(* C32: while a response is streaming, Ctrl+C, and Esc in the chat view,   *)
(* invokes the cancel function of every chat call that is in flight and    *)
(* clears the streaming flag without quitting; when nothing is streaming,  *)
(* Ctrl+C quits.                                                           *)
C32_KeysCancelOrQuit ==
    [][ /\ (streaming /\ (CtrlC \/ (Esc /\ currentView = "chat")))
            => /\ \A i \in 1..Len(commands) :
                     commands[i].kind = "chat" /\ InFlight(i)
                         => commands'[i].canceled
               /\ ~streaming'
               /\ ~quit'
        /\ (~streaming /\ CtrlC) => quit' ]_vars

(* C38: whenever streaming is true it is false again later, whatever the   *)
(* outcome of the provider call, and once Update has handled the message   *)
(* of a chat command that succeeded, the response has been appended.       *)
C38_StreamingEnds ==
    /\ streaming ~> ~streaming
    /\ [](\A i \in 1..Len(commands) :
             /\ commands[i].kind = "chat"
             /\ commands[i].pc = "handled"
             /\ ~commands[i].msg.err
             => appended >= 1)

(* C39: a chat command that has returned has made exactly one request to   *)
(* the provider.                                                           *)
C39_OneRequestPerMessage ==
    \A i \in 1..Len(commands) :
        commands[i].kind = "chat" /\ commands[i].pc \in {"returned", "handled"}
            => commands[i].requests = 1

(* C40: the setters of the adapter (SetAPIKey and the Gemini setters at    *)
(* the start of a command, SetThinkingEnabled in cmdThinking) are never    *)
(* called while a send or stream call of another command is in flight.     *)
C40_SettersOutsideCalls ==
    [][ /\ \A i \in 1..MaxCommands :
              Start(i) => \A j \in 1..Len(commands) : j # i => ~InFlight(j)
        /\ CmdThinking => \A j \in 1..Len(commands) : ~InFlight(j) ]_vars

====
